---- MODULE Spec2Model ----
(***************************************************************************)
(* Model of ioBroker.panasonic-viera: the adapter (src/main.js) and the    *)
(* control client (src/lib/viera-client.js, the second, current class      *)
(* definition at lines 247-677).                                           *)
(*                                                                         *)
(* Node.js runs one callback at a time and drains the microtask queue      *)
(* after each callback, so an action of this model is one event callback   *)
(* (message, stream data, process exit, timer) together with the promise   *)
(* continuations it makes runnable, up to the next await on real I/O.      *)
(***************************************************************************)
EXTENDS Integers, Sequences, FiniteSets, TLC

NULL == "null"

\* ------------------------------------------------------------------ bounds
\* events from outside handled in one run: startPairing messages, submitPin
\* messages and chunks the pairing subprocesses write to stdout/stderr.
\* Exits, errors and timers are bounded by the subprocesses and calls made.
MaxEvents == 4

\* writes to command states handled by onStateChange in one run
MaxWrites == 2
\* calls of the client made directly by a caller in one run
MaxApiCalls == 2
\* requests pollStatus sends to the television in one run, over all its calls
MaxPollCalls == 4

\* call s of startPairing spawns subprocess s
Procs == 1..MaxEvents
Fins == 1..MaxEvents

\* ------------------------------------------------- subprocess output lines
\* One chunk is one line of text.  The operators below tabulate, for every
\* line of the alphabet, what the code's string tests and regular
\* expressions yield on it.
AllLines ==
    { "Enter PIN: ", "Credentials: deadbeef01", "Credentials: cafe02",
      "AA:BB:CC:DD:EE:FF:00:11", "11:22:33:44:55:66:77:88", "deadbeef",
      "Connecting", "" }

\* lines a pairing subprocess is let to print in the pairing specification
PairLines == { "Enter PIN: ", "Credentials: deadbeef01", "Connecting", "" }

\* chunk.includes('Enter PIN') || chunk.includes('pin:')
HasPinMarker(l) == l \in { "Enter PIN: " }

\* line.match(/[Cc]redentials?:\s*(.+)/) -> match[1].trim(), NULL if no match
LabelledValue(l) ==
    CASE l = "Credentials: deadbeef01" -> "deadbeef01"
      [] l = "Credentials: cafe02" -> "cafe02"
      [] OTHER -> NULL

\* /^[0-9a-fA-F:]+$/.test(line) && line.length > 20
IsLongHexToken(l) == l \in { "AA:BB:CC:DD:EE:FF:00:11", "11:22:33:44:55:66:77:88" }

\* output.includes('Enter PIN') || output.includes('pin:') on the accumulated text
IncludesPinPrompt(output) == \E i \in 1..Len(output) : HasPinMarker(output[i])

\* output.split('\n').map(l => l.trim()).filter(l => l)
NonEmptyLines(output) == SelectSeq(output, LAMBDA l : l # "")

\* output.trim(): leading and trailing blank lines go, inner ones stay
RECURSIVE TrimLeft(_)
TrimLeft(output) ==
    IF output = <<>> THEN <<>>
    ELSE IF Head(output) = "" THEN TrimLeft(Tail(output)) ELSE output

RECURSIVE TrimRight(_)
TrimRight(output) ==
    IF output = <<>> THEN <<>>
    ELSE IF output[Len(output)] = "" THEN TrimRight(SubSeq(output, 1, Len(output) - 1))
    ELSE output

Trim(output) == TrimRight(TrimLeft(output))

\* a credential value: an extracted token, or raw text (a sequence of lines)
NoCred == [kind |-> "none", text |-> <<>>]
Token(v) == [kind |-> "token", text |-> <<v>>]
RawText(output) == [kind |-> "raw", text |-> output]

\* JavaScript truthiness of result.credentials
Truthy(c) == c.kind # "none" /\ c.text # <<>>

\* first loop of _extractCredentials: the first labelled line
RECURSIVE FirstLabelled(_)
FirstLabelled(lines) ==
    IF lines = <<>> THEN NULL
    ELSE IF LabelledValue(Head(lines)) # NULL THEN LabelledValue(Head(lines))
    ELSE FirstLabelled(Tail(lines))

\* second loop of _extractCredentials: the last long hex-colon line
RECURSIVE LastHexToken(_)
LastHexToken(lines) ==
    IF lines = <<>> THEN NULL
    ELSE IF IsLongHexToken(lines[Len(lines)]) THEN lines[Len(lines)]
    ELSE LastHexToken(SubSeq(lines, 1, Len(lines) - 1))

\* variant: the long hex-colon token is looked for before the labelled line
_extractCredentials_HexFirst(output) ==
    LET lines == NonEmptyLines(output)
    IN  IF LastHexToken(lines) # NULL THEN LastHexToken(lines)
        ELSE FirstLabelled(lines)

_extractCredentials(output) ==
    LET lines == NonEmptyLines(output)
    IN  IF FirstLabelled(lines) # NULL THEN FirstLabelled(lines)
        ELSE LastHexToken(lines)


\* ------------------------------------------------------------------- state
VARIABLES
    config,       \* this.config: adapter settings, fixed for one run
    atvremote,    \* whether _findBinary('atvremote') finds an executable
    pairProcess,  \* this._pairProcess: 0 for null, else the subprocess
    unloaded,     \* onUnload has run
    proc,         \* the pairing subprocesses (ChildProcess objects)
    start,        \* the startPairing handlers with their pairStart call
    fin,          \* the submitPin handlers with their pairFinish call
    stored,       \* credentials handed to _storePairCredentials
    wake,         \* the turnOnAppleTv call
    calls,        \* the HTTP calls of the client (_soapRequest, isAvailable)
    hs,           \* the onStateChange invocations
    poll,         \* this.pollingTimer, this.tvAvailable and the pollStatus calls
    log,          \* entries written to this.log by onStateChange
    scan          \* the scanAppleTv message handler with its scanAppleTvs call

vars == << config, atvremote, pairProcess, unloaded, proc, start, fin, stored, wake,
           calls, hs, poll, log, scan >>

\* the state of the television control client and of the command handlers
ctlVars == << calls, hs, poll, log >>

\* exit codes as printed by 'exit ' + code; "null" is termination by a signal
ExitCodes == { "0", "1", "null" }

InitProc ==
    [ st |-> "none",        \* none | spawnfail | errored | running | exited
      killed |-> FALSE,     \* ChildProcess.killed
      signals |-> 0,        \* SIGTERM signals delivered to the process
      cancelled |-> FALSE,  \* the adapter has cancelled the session
      code |-> NULL,
      out |-> <<>> ]        \* chunks delivered on stdout/stderr so far

InitStart ==
    [ pc |-> "idle",        \* idle | install | waiting | done
      timer |-> "none",     \* none | armed | cleared | fired
      resolved |-> FALSE,
      nsettle |-> 0,        \* calls of resolve/reject
      result |-> "none",
      cred |-> NoCred ]

InitFin ==
    [ pc |-> "idle",        \* idle | waiting | done
      proc |-> 0,
      from |-> 0,           \* chunks delivered before onData was registered
      timer |-> "none",
      resolved |-> FALSE,
      nsettle |-> 0,
      wrote |-> FALSE,      \* stdin.write(pin + '\n') went through
      result |-> "none",
      cred |-> NoCred ]

InitWake ==
    [ pc |-> "idle", args |-> <<>>, attempted |-> <<>>, outcomes |-> <<>>,
      inflight |-> {}, status |-> "none", label |-> NULL, error |-> NULL ]

\* the scanAppleTv handler before the message arrives
InitScan ==
    [ pc |-> "idle",        \* idle | install | exec | done
      installs |-> 0,       \* runs of installPyatv
      execs |-> 0,          \* runs of atvremote scan
      stdout |-> << >>,     \* the lines atvremote scan has printed
      devices |-> << >>,    \* the result of scanAppleTvs
      saved |-> << >>,      \* the device written to the adapter's settings
      status |-> "none",    \* none | ok | failed
      error |-> NULL ]

\* ------------------------------------------------------- process handling
\* ChildProcess.kill('SIGTERM'): signals a process that has not been reaped
\* and sets .killed; on an exited or never started process it does nothing.
Kill(pr, p) ==
    IF pr[p].st = "running"
    THEN [pr EXCEPT ![p].killed = TRUE, ![p].signals = @ + 1]
    ELSE pr

\* main.js "Kill old process" and the same lines of onUnload
CancelPairing(pr, handle) ==
    IF handle # 0
    THEN [Kill(pr, handle) EXCEPT ![handle].cancelled = TRUE]
    ELSE pr

\* variant: the handle is kept after the kill
HandleAfterCancel_Keep(handle) == handle

\* this._pairProcess = null, the line after the kill
HandleAfterCancel(handle) == 0

\* a promise keeps its first outcome; later resolve/reject calls are ignored
Settle(r, result, cred) ==
    [r EXCEPT !.nsettle = @ + 1,
              !.result = IF @ = "none" THEN result ELSE @,
              !.cred = IF r.result = "none" THEN cred ELSE @]

\* what pairFinish call f has accumulated in its own output variable
FinOutput(pr, f) ==
    IF f.proc = 0 THEN <<>>
    ELSE SubSeq(pr[f.proc].out, f.from + 1, Len(pr[f.proc].out))


\* variant: the timer is left running
ClearTimeout_Noop(t) == t

\* clearTimeout(timeout)
ClearTimeout(t) == IF t = "armed" THEN "cleared" ELSE t

\* the awaiting handler runs on as soon as its promise has an outcome
Finished(r) == IF r.result # "none" THEN [r EXCEPT !.pc = "done"] ELSE r

\* --------------------------------------------------- pairStart, its events
\* spawn(atvremotePath, args, ...) and setTimeout(..., 30000)
PairStartSpawn(r) == [r EXCEPT !.pc = "waiting", !.timer = "armed"]

Spawned(ok) == [InitProc EXCEPT !.st = IF ok THEN "running" ELSE "spawnfail"]

\* variant: the data listeners do not test the resolved flag
PairStartOnData_NoGuard(r, output) ==
    IF IncludesPinPrompt(output)
    THEN [Settle(r, "awaitingPin", NoCred) EXCEPT !.resolved = TRUE,
                                                  !.timer = ClearTimeout(@)]
    ELSE r

\* proc.stdout.on('data') and proc.stderr.on('data')
PairStartOnData(r, output) ==
    IF ~r.resolved /\ IncludesPinPrompt(output)
    THEN [Settle(r, "awaitingPin", NoCred) EXCEPT !.resolved = TRUE,
                                                  !.timer = ClearTimeout(@)]
    ELSE r

\* variant: the exit listener rejects without looking for credentials
PairStartOnExit_NoExtract(r, output, code) ==
    IF ~r.resolved
    THEN [Settle(r, "exitFailed", NoCred) EXCEPT !.resolved = TRUE,
                                                 !.timer = ClearTimeout(@)]
    ELSE [r EXCEPT !.timer = ClearTimeout(@)]

\* proc.on('exit')
PairStartOnExit(r, output, code) ==
    IF ~r.resolved
    THEN LET credentials == _extractCredentials(output)
         IN  [(IF credentials # NULL
               THEN Settle(r, "paired", Token(credentials))
               ELSE Settle(r, "exitFailed", NoCred))
              EXCEPT !.resolved = TRUE, !.timer = ClearTimeout(@)]
    ELSE [r EXCEPT !.timer = ClearTimeout(@)]

\* proc.on('error')
PairStartOnError(r) ==
    IF ~r.resolved
    THEN [Settle(r, "spawnError", NoCred) EXCEPT !.resolved = TRUE,
                                                 !.timer = ClearTimeout(@)]
    ELSE [r EXCEPT !.timer = ClearTimeout(@)]

\* the 30 s timer of pairStart: the call's record, and the subprocesses
PairStartOnTimeout(r) ==
    IF ~r.resolved
    THEN [Settle(r, "timeout", NoCred) EXCEPT !.resolved = TRUE, !.timer = "fired"]
    ELSE [r EXCEPT !.timer = "fired"]

\* variant: the timer rejects without proc.kill
PairStartTimeoutKill_None(r, pr, p) == pr

PairStartTimeoutKill(r, pr, p) == IF ~r.resolved THEN Kill(pr, p) ELSE pr

\* --------------------------------------------------- pairFinish, its events
\* if (!pairProcess || pairProcess.killed) throw
NoActiveProcess(pr, handle) == handle = 0 \/ pr[handle].killed

\* variant: pairFinish arms no timer
PairFinishCall_NoTimer(f, pr, handle) ==
    [f EXCEPT !.pc = "waiting", !.proc = handle, !.from = Len(pr[handle].out)]

\* setTimeout, the three listeners
PairFinishCall(f, pr, handle) ==
    [f EXCEPT !.pc = "waiting", !.proc = handle, !.from = Len(pr[handle].out),
              !.timer = "armed"]

\* variant: no best-effort result for exit code 0 without credentials
PairFinishOnExit_NoRaw(f, output, code) ==
    IF f.resolved THEN [f EXCEPT !.timer = ClearTimeout(@)]
    ELSE LET credentials == _extractCredentials(output)
         IN  [(IF credentials # NULL THEN Settle(f, "paired", Token(credentials))
               ELSE Settle(f, "exitFailed", NoCred))
              EXCEPT !.resolved = TRUE, !.timer = ClearTimeout(@)]

\* pairProcess.on('exit')
PairFinishOnExit(f, output, code) ==
    IF f.resolved THEN [f EXCEPT !.timer = ClearTimeout(@)]
    ELSE LET credentials == _extractCredentials(output)
         IN  [(IF credentials # NULL THEN Settle(f, "paired", Token(credentials))
               ELSE IF code = "0" THEN Settle(f, "paired", RawText(Trim(output)))
               ELSE Settle(f, "exitFailed", NoCred))
              EXCEPT !.resolved = TRUE, !.timer = ClearTimeout(@)]

\* catch (err) around pairProcess.stdin.write
PairFinishOnWriteError(f) ==
    IF ~f.resolved
    THEN [Settle(f, "writeFailed", NoCred) EXCEPT !.resolved = TRUE,
                                                  !.timer = ClearTimeout(@)]
    ELSE [f EXCEPT !.timer = ClearTimeout(@)]

\* the 30 s timer of pairFinish
PairFinishOnTimeout(f) ==
    IF ~f.resolved
    THEN [Settle(f, "timeout", NoCred) EXCEPT !.resolved = TRUE, !.timer = "fired"]
    ELSE [f EXCEPT !.timer = "fired"]

PairFinishTimeoutKill(f, pr) == IF ~f.resolved THEN Kill(pr, f.proc) ELSE pr

\* ------------------------------------------ main.js after the awaited call
\* calls whose promise got its outcome in this step
StartSettledNow(s) == start[s].result = "none" /\ start'[s].result # "none"
FinSettledNow(f) == fin[f].pc = "waiting" /\ fin'[f].pc = "done"

\* startPairing: this._pairProcess = result.process on awaitingPin;
\* submitPin: this._pairProcess = null after pairFinish, resolved or rejected
HandleAfter ==
    IF \E f \in Fins : FinSettledNow(f) THEN 0
    ELSE IF \E s \in Procs : StartSettledNow(s) /\ start'[s].result = "awaitingPin"
         THEN CHOOSE s \in Procs : StartSettledNow(s) /\ start'[s].result = "awaitingPin"
         ELSE pairProcess

\* _storePairCredentials(protocol, result.credentials)
StoredAfter ==
    stored
    \cup { [proc |-> s, by |-> "pairStart", cred |-> start'[s].cred] :
             s \in { t \in Procs : StartSettledNow(t) /\ start'[t].result = "paired" } }
    \cup { [proc |-> fin'[f].proc, by |-> "pairFinish", cred |-> fin'[f].cred] :
             f \in { g \in Fins : FinSettledNow(g) /\ fin'[g].result = "paired"
                                  /\ Truthy(fin'[g].cred) } }


\* ------------------------------------------- the television control client
\* the SOAP operations of the client, and its probe
SoapOps == { "sendKey", "getVolume", "setVolume", "getMute", "setMute" }

\* status codes a response can carry
Statuses == { 200, 500 }

\* response bodies the television can send for an operation
Bodies(op) ==
    CASE op = "getVolume" -> { "<CurrentVolume>37</CurrentVolume>", "<Fault/>" }
      [] op = "getMute" -> { "<CurrentMute>1</CurrentMute>", "<CurrentMute>0</CurrentMute>",
                             "<Fault/>" }
      [] OTHER -> { "<Response/>" }

\* who awaits a call: the caller of the client ("api"), an onStateChange
\* invocation ("handler") or a pollStatus call ("poll")
Owner(kind, id) == [ kind |-> kind, id |-> id ]

\* new Promise(...) with http.request: the request is written once
NewCall(op, arg, owner) ==
    [ op |-> op, arg |-> arg, owner |-> owner,
      input |-> arg,          \* what the method of the client was called with
      sent |-> 1,             \* HTTP requests written for this call
      req |-> "open",         \* open | destroyed
      events |-> << >>,       \* 'end', 'error', 'timeout' events delivered
      body |-> "",            \* data, the response body read
      resolved |-> FALSE,
      nsettle |-> 0,          \* calls of resolve/reject
      outcome |-> "pending",  \* pending | resolved | rejected
      value |-> "",
      error |-> "" ]

\* _soapRequest(path, urn, action, body): one POST
_soapRequest(op, arg, owner) == NewCall(op, arg, owner)

\* isAvailable(): one GET of /nrc/ddd.xml
isAvailable(owner) == NewCall("isAvailable", "/nrc/ddd.xml", owner)

\* a promise keeps its first outcome; later resolve/reject calls are ignored
SettleCall(r, outcome, value, error) ==
    IF r.resolved
    THEN [r EXCEPT !.nsettle = @ + 1]
    ELSE [r EXCEPT !.nsettle = @ + 1, !.resolved = TRUE, !.outcome = outcome,
                   !.value = value, !.error = error]

\* variant: every response resolves, whatever its status
SoapOnEnd_AnyStatus(r, statusCode, data) == SettleCall(r, "resolved", data, "")

\* res.on('end') of _soapRequest
SoapOnEnd(r, statusCode, data) ==
    IF statusCode = 200
    THEN SettleCall(r, "resolved", data, "")
    ELSE SettleCall(r, "rejected", "", "httpStatus")

\* variant: a connection error sends the request again
SoapOnError_Retry(r) == [r EXCEPT !.sent = @ + 1]

\* req.on('error') of _soapRequest
SoapOnError(r) == SettleCall(r, "rejected", "", "connection")

\* req.on('timeout') of _soapRequest: req.destroy(), then reject
SoapOnTimeout(r) == SettleCall([r EXCEPT !.req = "destroyed"], "rejected", "", "timeout")

\* res.on('end') of isAvailable
ProbeOnEnd(r, statusCode) ==
    SettleCall(r, "resolved", IF statusCode = 200 THEN "true" ELSE "false", "")

\* variant: a connection error rejects the probe
ProbeOnError_Reject(r) == SettleCall(r, "rejected", "", "connection")

\* req.on('error') of isAvailable
ProbeOnError(r) == SettleCall(r, "resolved", "false", "")

\* req.on('timeout') of isAvailable: req.destroy(), then resolve(false)
ProbeOnTimeout(r) == SettleCall([r EXCEPT !.req = "destroyed"], "resolved", "false", "")

\* the listeners of a call, by the event delivered
OnEnd(r, statusCode, data) ==
    IF r.op = "isAvailable" THEN ProbeOnEnd(r, statusCode) ELSE SoapOnEnd(r, statusCode, data)

OnError(r) == IF r.op = "isAvailable" THEN ProbeOnError(r) ELSE SoapOnError(r)

OnTimeout(r) == IF r.op = "isAvailable" THEN ProbeOnTimeout(r) ELSE SoapOnTimeout(r)

\* the event is recorded on the call it is delivered to
Delivered(r, event) == [r EXCEPT !.events = Append(@, event)]

\* res.on('data'): the body has been read when 'end' is delivered
Received(r, event, data) == [Delivered(r, event) EXCEPT !.body = data]

\* the call settled in this step
SettledNow(r, r1) == ~r.resolved /\ r1.resolved

\* --------------------------------------------------------- onStateChange
\* REMOTE_KEYS, for the buttons the model presses
RemoteKeys == [ mute |-> "NRC_MUTE-ONOFF", d1 |-> "NRC_D1-ONOFF" ]

\* INPUT_KEYS[String(state.val).toUpperCase()], "" for undefined
InputKey(val) ==
    CASE val \in { "HDMI1", "hdmi1" } -> "NRC_HDMI1-ONOFF"
      [] val \in { "TV", "tv" } -> "NRC_TV-ONOFF"
      [] OTHER -> ""

\* the values written to the states that parseInt(state.val, 10) reads, and
\* what it makes of them; "abc" gives NaN
Numeric == { "0", "7", "12", "50", "123", "150" }

IsNaN(val) == val \notin Numeric

ParseInt(val) ==
    CASE val = "0" -> 0 [] val = "7" -> 7 [] val = "12" -> 12
      [] val = "50" -> 50 [] val = "123" -> 123 [] val = "150" -> 150

\* state.val as a condition, and !!state.val
TruthyVal(val) == val \notin { "false", "", "0", "null" }

\* String(channelNumber).split(''), for a positive integer
RECURSIVE Digits(_)
Digits(n) == IF n < 10 THEN << n >> ELSE Append(Digits(n \div 10), n % 10)

\* `NRC_D${digit}-ONOFF`
DigitKeys ==
    << "NRC_D0-ONOFF", "NRC_D1-ONOFF", "NRC_D2-ONOFF", "NRC_D3-ONOFF", "NRC_D4-ONOFF",
       "NRC_D5-ONOFF", "NRC_D6-ONOFF", "NRC_D7-ONOFF", "NRC_D8-ONOFF", "NRC_D9-ONOFF" >>

DigitKey(digit) == DigitKeys[digit + 1]

\* A number that need not be whole is given in tenths: 125 is 12.5.
\* Math.round(x), the whole number nearest to x, the upper one of two
MathRound(x) == (x + 5) \div 10

\* variant: the upper limit is missing
ClampVolume_NoCeiling(level) == IF level < 0 THEN 0 ELSE level

\* Math.max(0, Math.min(100, ...)) of setVolume, on a whole number
ClampVolume(level) == IF level < 0 THEN 0 ELSE IF level > 100 THEN 100 ELSE level

\* `${level}`: the decimal text of a whole number
LevelText(level) == ToString(level)

\* setVolume(level), level in tenths
setVolume(level, owner) ==
    [ _soapRequest("setVolume", LevelText(ClampVolume(MathRound(level))), owner)
      EXCEPT !.input = level ]

\* variant: the key presses are started without awaiting one another
sendChannelNumber_AllAtOnce(channelNumber, owner) ==
    LET digits == Digits(channelNumber)
    IN  [ calls |-> [ i \in 1..Len(digits) |->
                        _soapRequest("sendKey", DigitKey(digits[i]), owner) ],
          digits |-> << >> ]

\* sendChannelNumber(channelNumber) up to its first await: the first digit
\* is sent, the others wait
sendChannelNumber(channelNumber, owner) ==
    LET digits == Digits(channelNumber)
    IN  [ calls |-> << _soapRequest("sendKey", DigitKey(Head(digits)), owner) >>,
          digits |-> Tail(digits) ]

\* one invocation of onStateChange(id, state)
NewHandler(channel, stateName, val, ack) ==
    [ channel |-> channel,    \* id.split('.').slice(-2, -1)[0]
      stateName |-> stateName,\* id.split('.').pop()
      val |-> val, ack |-> ack,
      pc |-> "done",          \* call | pause | ack | done
      digits |-> << >>,       \* the digits sendChannelNumber has still to send
      ncalls |-> 0,           \* client calls made by this invocation
      status |-> "returned",  \* returned | failed (the catch block ran)
      acked |-> "" ]          \* the value of the last setStateAsync(..., true)

\* a log entry of the invocation src
LogEntry(src, level) == [ src |-> src, level |-> level ]

\* await this.client.<op>(arg): the request goes out, the handler waits
Await(h, digits) == [h EXCEPT !.pc = "call", !.digits = digits, !.ncalls = @ + 1]

\* the val field of an invocation whose state argument is null (the state
\* was deleted): there is no state object to read val and ack from
NoState == "<no state>"

\* variant: the handler looks at every state change
Ignored_Never(h) == FALSE

\* if (!state || state.ack) return;
Ignored(h) == h.val = NoState \/ h.ack

\* what onStateChange does up to its first await: the handler, the client
\* call it makes (<< >> for none) and the levels it logs at
Dispatch(id, h) ==
    LET none == [ h |-> h, call |-> << >>, logs |-> {} ]
        key(k, lv) == [ h |-> Await(h, << >>),
                        call |-> << _soapRequest("sendKey", k, Owner("handler", id)) >>,
                        logs |-> { lv } ]
    IN  IF Ignored(h) THEN none
        ELSE IF h.channel = "remote"
        THEN IF h.stateName \in DOMAIN RemoteKeys
             THEN key(RemoteKeys[h.stateName], "debug")
             ELSE none
        ELSE IF h.stateName = "power"
        THEN key("NRC_POWER-ONOFF", "info")
        ELSE IF h.stateName = "volume"
        THEN IF IsNaN(h.val) THEN none
             ELSE [ h |-> Await(h, << >>),
                    call |-> << setVolume(10 * ParseInt(h.val), Owner("handler", id)) >>,
                    logs |-> { "debug" } ]
        ELSE IF h.stateName = "mute"
        THEN [ h |-> Await(h, << >>),
               call |-> << _soapRequest("setMute", IF TruthyVal(h.val) THEN "1" ELSE "0",
                                        Owner("handler", id)) >>,
               logs |-> { "debug" } ]
        ELSE IF h.stateName = "channel"
        THEN IF IsNaN(h.val) \/ ParseInt(h.val) <= 0 THEN none
             ELSE LET sent == sendChannelNumber(ParseInt(h.val), Owner("handler", id))
                  IN  [ h |-> [h EXCEPT !.pc = "call", !.digits = sent.digits,
                                        !.ncalls = Len(sent.calls)],
                        call |-> sent.calls,
                        logs |-> { "info" } ]
        ELSE IF h.stateName = "input"
        THEN IF InputKey(h.val) # ""
             THEN key(InputKey(h.val), "info")
             ELSE [ none EXCEPT !.logs = { "warn" } ]
        ELSE none

\* the continuation of onStateChange after its client call r has settled:
\* the catch block on a rejection, else the pause of sendChannelNumber, the
\* setStateAsync of the acknowledgement, or the return
AfterCall(h, r) ==
    IF r.outcome = "rejected" THEN [h EXCEPT !.pc = "done", !.status = "failed"]
    ELSE IF h.stateName = "channel" /\ h.channel # "remote"
    THEN [h EXCEPT !.pc = "pause"]
    ELSE IF h.channel = "remote" \/ h.stateName \in { "volume", "mute" }
    THEN [h EXCEPT !.pc = "ack"]
    ELSE [h EXCEPT !.pc = "done"]

\* ------------------------------------------------------------ pollStatus
\* response.match(/<CurrentVolume>(\d+)<\/CurrentVolume>/): the tag is there
HasVolume(response) == response = "<CurrentVolume>37</CurrentVolume>"

\* response.match(/<CurrentMute>(\d+)<\/CurrentMute>/): the tag is there
HasMute(response) ==
    response \in { "<CurrentMute>1</CurrentMute>", "<CurrentMute>0</CurrentMute>" }

InitPoll ==
    [ ready |-> "none",       \* onReady: none | noIp | createFailed | ok
      timer |-> "none",       \* this.pollingTimer: none | armed | cleared
      tvAvailable |-> FALSE,
      cycles |-> << >> ]      \* the pollStatus calls

\* one call of pollStatus
NewCycle(origin) ==
    [ origin |-> origin,      \* ready (awaited by onReady) | timer
      pc |-> "probe",         \* probe | conn | power | getVolume | volume |
                              \* getMute | mute | done
      available |-> FALSE,
      caught |-> 0,           \* failures caught and logged at debug level
      rejected |-> FALSE ]    \* the promise of pollStatus was rejected

\* pollStatus returns; onReady, when it awaited this call, goes on to
\* startPolling
PollReturn(p, k) ==
    [p EXCEPT !.cycles[k].pc = "done",
              !.timer = IF p.cycles[k].origin = "ready" THEN "armed" ELSE @]

\* the catch block around the body of pollStatus
PollCatch(p, k) == PollReturn([p EXCEPT !.cycles[k].caught = @ + 1], k)

\* the second half of pollStatus, after the availability has been published
PollReadings(p, k) ==
    IF p.cycles[k].available
    THEN [ poll |-> [p EXCEPT !.cycles[k].pc = "getVolume"],
           call |-> << _soapRequest("getVolume", "", Owner("poll", k)) >> ]
    ELSE [ poll |-> PollReturn(p, k), call |-> << >> ]

\* pollStatus from 'const muted = await this.client.getMute()'
PollMute(p, k) ==
    [ poll |-> [p EXCEPT !.cycles[k].pc = "getMute"],
      call |-> << _soapRequest("getMute", "", Owner("poll", k)) >> ]

\* variant: a reading is published whether or not the response has the tag
PollAfterCall_WriteUnknown(p, k, r) ==
    LET pc == p.cycles[k].pc
        failed == [p EXCEPT !.cycles[k].caught = @ + 1]
    IN  CASE pc = "probe" ->
               IF r.outcome = "rejected"
               THEN [ poll |-> PollCatch(p, k), call |-> << >> ]
               ELSE LET available == (r.value = "true")
                        p1 == [p EXCEPT !.cycles[k].available = available]
                    IN  IF available # p.tvAvailable
                        THEN [ poll |-> [p1 EXCEPT !.tvAvailable = available,
                                                   !.cycles[k].pc = "conn"],
                               call |-> << >> ]
                        ELSE PollReadings(p1, k)
          [] pc = "getVolume" ->
               IF r.outcome = "rejected" THEN PollMute(failed, k)
               ELSE [ poll |-> [p EXCEPT !.cycles[k].pc = "volume"], call |-> << >> ]
          [] pc = "getMute" ->
               IF r.outcome = "rejected"
               THEN [ poll |-> PollReturn(failed, k), call |-> << >> ]
               ELSE [ poll |-> [p EXCEPT !.cycles[k].pc = "mute"], call |-> << >> ]
          [] OTHER -> [ poll |-> p, call |-> << >> ]

\* pollStatus goes on after its client call r has settled
PollAfterCall(p, k, r) ==
    LET pc == p.cycles[k].pc
        failed == [p EXCEPT !.cycles[k].caught = @ + 1]
    IN  CASE pc = "probe" ->
               IF r.outcome = "rejected"
               THEN [ poll |-> PollCatch(p, k), call |-> << >> ]
               ELSE LET available == (r.value = "true")
                        p1 == [p EXCEPT !.cycles[k].available = available]
                    IN  IF available # p.tvAvailable
                        THEN [ poll |-> [p1 EXCEPT !.tvAvailable = available,
                                                   !.cycles[k].pc = "conn"],
                               call |-> << >> ]
                        ELSE PollReadings(p1, k)
          [] pc = "getVolume" ->
               IF r.outcome = "rejected" THEN PollMute(failed, k)
               ELSE IF HasVolume(r.value)
               THEN [ poll |-> [p EXCEPT !.cycles[k].pc = "volume"], call |-> << >> ]
               ELSE PollMute(p, k)
          [] pc = "getMute" ->
               IF r.outcome = "rejected"
               THEN [ poll |-> PollReturn(failed, k), call |-> << >> ]
               ELSE IF HasMute(r.value)
               THEN [ poll |-> [p EXCEPT !.cycles[k].pc = "mute"], call |-> << >> ]
               ELSE [ poll |-> PollReturn(p, k), call |-> << >> ]
          [] OTHER -> [ poll |-> p, call |-> << >> ]

\* variant: no try/catch around the body, a failed state write rejects
PollAfterWrite_Uncaught(p, k, ok) ==
    LET pc == p.cycles[k].pc
        failed == [p EXCEPT !.cycles[k].caught = @ + 1]
    IN  CASE pc = "conn" ->
               IF ok THEN [ poll |-> [p EXCEPT !.cycles[k].pc = "power"], call |-> << >> ]
               ELSE [ poll |-> [p EXCEPT !.cycles[k].pc = "done",
                                         !.cycles[k].rejected = TRUE],
                      call |-> << >> ]
          [] pc = "power" ->
               IF ok THEN PollReadings(p, k)
               ELSE [ poll |-> [p EXCEPT !.cycles[k].pc = "done",
                                         !.cycles[k].rejected = TRUE],
                      call |-> << >> ]
          [] pc = "volume" -> PollMute(IF ok THEN p ELSE failed, k)
          [] pc = "mute" -> [ poll |-> PollReturn(IF ok THEN p ELSE failed, k),
                              call |-> << >> ]

\* pollStatus goes on after a setStateAsync has settled
PollAfterWrite(p, k, ok) ==
    LET pc == p.cycles[k].pc
        failed == [p EXCEPT !.cycles[k].caught = @ + 1]
    IN  CASE pc = "conn" ->
               IF ok THEN [ poll |-> [p EXCEPT !.cycles[k].pc = "power"], call |-> << >> ]
               ELSE [ poll |-> PollCatch(p, k), call |-> << >> ]
          [] pc = "power" ->
               IF ok THEN PollReadings(p, k)
               ELSE [ poll |-> PollCatch(p, k), call |-> << >> ]
          [] pc = "volume" -> PollMute(IF ok THEN p ELSE failed, k)
          [] pc = "mute" -> [ poll |-> PollReturn(IF ok THEN p ELSE failed, k),
                              call |-> << >> ]

\* pollStatus up to its first await
PollStart(p, origin) ==
    [ poll |-> [p EXCEPT !.cycles = Append(@, NewCycle(origin))],
      call |-> << isAvailable(Owner("poll", Len(p.cycles) + 1)) >> ]

\* the control client before onReady
InitCtl ==
    /\ calls = << >>
    /\ hs = << >>
    /\ poll = InitPoll
    /\ log = {}

\* ----------------------------------------------------- the adapter's steps
RECURSIVE SumLen(_, _)
SumLen(pr, n) == IF n = 0 THEN 0 ELSE Len(pr[n].out) + SumLen(pr, n - 1)

ChunksDelivered == SumLen(proc, MaxEvents)

\* messages and chunks handled so far
EventsUsed ==
    Cardinality({ s \in Procs : start[s].pc # "idle" })
    + Cardinality({ f \in Fins : fin[f].pc # "idle" }) + ChunksDelivered

NoDevice == config.appleTvIdentifier = "" /\ config.appleTvAddress = ""

\* onMessage 'startPairing' up to the first wait: the device check, the kill
\* of the old process, and pairStart as far as ensureAtvremote lets it run
StartPairingWithin(budget, s, spawnOk) ==
    /\ ~unloaded
    /\ start[s].pc = "idle"
    /\ \A t \in Procs : t < s => start[t].pc # "idle"
    /\ EventsUsed < budget
    /\ IF NoDevice
       THEN /\ start' = [start EXCEPT ![s].pc = "done", ![s].result = "noDevice"]
            /\ UNCHANGED << pairProcess, proc >>
       ELSE /\ pairProcess' = HandleAfterCancel(pairProcess)
            /\ IF atvremote
               THEN /\ proc' = [CancelPairing(proc, pairProcess) EXCEPT ![s] = Spawned(spawnOk)]
                    /\ start' = [start EXCEPT ![s] = PairStartSpawn(@)]
               ELSE /\ proc' = CancelPairing(proc, pairProcess)
                    /\ start' = [start EXCEPT ![s].pc = "install"]
    /\ UNCHANGED << scan, config, atvremote, unloaded, fin, stored, wake >>
    /\ UNCHANGED ctlVars

StartPairing(s, spawnOk) == StartPairingWithin(MaxEvents, s, spawnOk)

\* ensureAtvremote after installPyatv has called back, then the spawn
PairInstallDone(s, ok, found, spawnOk) ==
    /\ start[s].pc = "install"
    /\ atvremote' = (atvremote \/ (ok /\ found))
    /\ IF ~ok
       THEN /\ start' = [start EXCEPT ![s] = Finished(Settle(@, "installFailed", NoCred))]
            /\ UNCHANGED proc
       ELSE IF ~atvremote'
       THEN /\ start' = [start EXCEPT ![s] = Finished(Settle(@, "notFound", NoCred))]
            /\ UNCHANGED proc
       ELSE /\ proc' = [proc EXCEPT ![s] = Spawned(spawnOk)]
            /\ start' = [start EXCEPT ![s] = PairStartSpawn(@)]
    /\ UNCHANGED << scan, config, pairProcess, unloaded, fin, stored, wake >>
    /\ UNCHANGED ctlVars

\* a chunk arrives on stdout or stderr of subprocess p
ProcDataWithin(budget, p, line) ==
    /\ proc[p].st \in { "running", "exited" }
    /\ EventsUsed < budget
    /\ proc' = [proc EXCEPT ![p].out = Append(@, line)]
    /\ start' = [start EXCEPT ![p] = Finished(PairStartOnData(@, proc'[p].out))]
    /\ UNCHANGED fin
    /\ pairProcess' = HandleAfter
    /\ stored' = StoredAfter
    /\ UNCHANGED << scan, config, atvremote, unloaded, wake >>
    /\ UNCHANGED ctlVars

ProcData(p, line) == ProcDataWithin(MaxEvents, p, line)

\* subprocess p has ended: 'exit' is emitted to every listener
ProcExit(p, code) ==
    /\ proc[p].st = "running"
    /\ code = "null" => proc[p].killed
    /\ proc' = [proc EXCEPT ![p].st = "exited", ![p].code = code]
    /\ start' = [start EXCEPT ![p] = Finished(PairStartOnExit(@, proc[p].out, code))]
    /\ fin' = [f \in Fins |->
                 IF fin[f].proc = p /\ fin[f].timer # "none"
                 THEN Finished(PairFinishOnExit(fin[f], FinOutput(proc, fin[f]), code))
                 ELSE fin[f]]
    /\ pairProcess' = HandleAfter
    /\ stored' = StoredAfter
    /\ UNCHANGED << scan, config, atvremote, unloaded, wake >>
    /\ UNCHANGED ctlVars

\* the spawn failed: 'error' is emitted on the next tick
ProcError(p) ==
    /\ proc[p].st = "spawnfail"
    /\ proc' = [proc EXCEPT ![p].st = "errored"]
    /\ start' = [start EXCEPT ![p] = Finished(PairStartOnError(@))]
    /\ UNCHANGED << scan, config, atvremote, pairProcess, unloaded, fin, stored, wake >>
    /\ UNCHANGED ctlVars

\* the 30 s timer of pairStart fires (a failed spawn reports before any timer)
PairStartTimeout(s) ==
    /\ start[s].timer = "armed"
    /\ proc[s].st # "spawnfail"
    /\ proc' = PairStartTimeoutKill(start[s], proc, s)
    /\ start' = [start EXCEPT ![s] = Finished(PairStartOnTimeout(@))]
    /\ UNCHANGED << scan, config, atvremote, pairProcess, unloaded, fin, stored, wake >>
    /\ UNCHANGED ctlVars

\* onMessage 'submitPin' up to the wait for pairFinish
SubmitPinWithin(budget, f, hasPin, writeOk) ==
    /\ ~unloaded
    /\ fin[f].pc = "idle"
    /\ \A g \in Fins : g < f => fin[g].pc # "idle"
    /\ EventsUsed < budget
    /\ IF ~hasPin
       THEN /\ fin' = [fin EXCEPT ![f].pc = "done", ![f].result = "noPin"]
            /\ UNCHANGED pairProcess
       ELSE IF pairProcess = 0
       THEN /\ fin' = [fin EXCEPT ![f].pc = "done", ![f].result = "noProcess"]
            /\ UNCHANGED pairProcess
       ELSE IF NoActiveProcess(proc, pairProcess)
       THEN /\ fin' = [fin EXCEPT ![f].pc = "done", ![f].result = "noActiveSession"]
            /\ pairProcess' = 0
       ELSE IF writeOk
       THEN /\ fin' = [fin EXCEPT ![f] = [PairFinishCall(@, proc, pairProcess)
                                          EXCEPT !.wrote = TRUE]]
            /\ UNCHANGED pairProcess
       ELSE /\ fin' = [fin EXCEPT ![f] =
                         Finished(PairFinishOnWriteError(PairFinishCall(@, proc, pairProcess)))]
            /\ pairProcess' = 0
    /\ UNCHANGED << scan, config, atvremote, unloaded, proc, start, stored, wake >>
    /\ UNCHANGED ctlVars

SubmitPin(f, hasPin, writeOk) == SubmitPinWithin(MaxEvents, f, hasPin, writeOk)

\* the 30 s timer of pairFinish fires
PairFinishTimeout(f) ==
    /\ fin[f].timer = "armed"
    /\ proc' = PairFinishTimeoutKill(fin[f], proc)
    /\ fin' = [fin EXCEPT ![f] = Finished(PairFinishOnTimeout(@))]
    /\ UNCHANGED start
    /\ pairProcess' = HandleAfter
    /\ stored' = StoredAfter
    /\ UNCHANGED << scan, config, atvremote, unloaded, wake >>
    /\ UNCHANGED ctlVars

\* onUnload: the polling timer and the pairing process
Unload ==
    /\ ~unloaded
    /\ unloaded' = TRUE
    /\ proc' = CancelPairing(proc, pairProcess)
    /\ pairProcess' = HandleAfterCancel(pairProcess)
    /\ poll' = [poll EXCEPT !.timer = IF @ = "armed" THEN "cleared" ELSE @]
    /\ UNCHANGED << scan, config, atvremote, start, fin, stored, wake >>
    /\ UNCHANGED << calls, hs, log >>

\* ---------------------------------------------- the pairing specification
Unpaired(i, a) ==
    [ useAppleTv |-> FALSE, appleTvIdentifier |-> i, appleTvAddress |-> a,
      appleTvMrpCredentials |-> "", appleTvAirplayCredentials |-> "",
      appleTvCompanionCredentials |-> "" ]

Devices == { Unpaired("", ""), Unpaired("AA:BB:CC:DD:EE:FF", "192.168.1.20") }

InitPair ==
    /\ config \in Devices
    /\ atvremote \in BOOLEAN
    /\ pairProcess = 0
    /\ unloaded = FALSE
    /\ proc = [p \in Procs |-> InitProc]
    /\ start = [s \in Procs |-> InitStart]
    /\ fin = [f \in Fins |-> InitFin]
    /\ stored = {}
    /\ wake = InitWake
    /\ scan = InitScan
    /\ InitCtl

NextPair ==
    \/ \E s \in Procs, spawnOk \in BOOLEAN : StartPairing(s, spawnOk)
    \/ \E s \in Procs, ok \in BOOLEAN, found \in BOOLEAN, spawnOk \in BOOLEAN :
          PairInstallDone(s, ok, found, spawnOk)
    \/ \E p \in Procs, line \in PairLines : ProcData(p, line)
    \/ \E p \in Procs, code \in ExitCodes : ProcExit(p, code)
    \/ \E p \in Procs : ProcError(p)
    \/ \E s \in Procs : PairStartTimeout(s)
    \/ \E f \in Fins, hasPin \in BOOLEAN, writeOk \in BOOLEAN : SubmitPin(f, hasPin, writeOk)
    \/ \E f \in Fins : PairFinishTimeout(f)
    \/ Unload

SpecPair == InitPair /\ [][NextPair]_vars

\* --------------------------------- one pairing session, any line of output
\* pairStart for one device with atvremote in place: the subprocess prints
\* lines of every kind and ends, and the exit listener extracts from them
InitExtract ==
    /\ config = Unpaired("AA:BB:CC:DD:EE:FF", "192.168.1.20")
    /\ atvremote = TRUE
    /\ pairProcess = 0
    /\ unloaded = FALSE
    /\ proc = [p \in Procs |-> InitProc]
    /\ start = [s \in Procs |-> InitStart]
    /\ fin = [f \in Fins |-> InitFin]
    /\ stored = {}
    /\ wake = InitWake
    /\ scan = InitScan
    /\ InitCtl

NextExtract ==
    \/ StartPairing(1, TRUE)
    \/ \E line \in AllLines : ProcData(1, line)
    \/ \E code \in ExitCodes : ProcExit(1, code)
    \/ PairStartTimeout(1)

SpecExtract == InitExtract /\ [][NextExtract]_vars

\* ------------------------------- a session replaced while a PIN is pending
\* events handled in one run of the replacement specification: two
\* startPairing messages, a PIN prompt for each, and one submitPin message
MaxReplaceEvents == 5

\* a configured device with atvremote in place; every subprocess starts and
\* prints nothing but its PIN prompt, every submitPin brings a PIN
NextReplace ==
    \/ \E s \in Procs : StartPairingWithin(MaxReplaceEvents, s, TRUE)
    \/ \E p \in Procs : ProcDataWithin(MaxReplaceEvents, p, "Enter PIN: ")
    \/ \E p \in Procs, code \in ExitCodes : ProcExit(p, code)
    \/ \E s \in Procs : PairStartTimeout(s)
    \/ \E f \in Fins, writeOk \in BOOLEAN :
          SubmitPinWithin(MaxReplaceEvents, f, TRUE, writeOk)
    \/ \E f \in Fins : PairFinishTimeout(f)
    \/ Unload

SpecReplace == InitExtract /\ [][NextReplace]_vars


\* ------------------------------------------------- the wake cascade (4.4)
\* the commands of turnOnAppleTv in the order the code tries them
Strategies == << "turn_on", "home_hold" >>

\* how an execFile call can come back
ExecOutcomes == { "ok", "nonZeroExit", "timeout", "spawnFailure" }

\* variant: any credential, the mrp one too, makes the device count as paired
_getAppleTvConfig_AnyCredential ==
    IF config.appleTvIdentifier = "" /\ config.appleTvAddress = "" THEN << >>
    ELSE IF /\ config.appleTvAirplayCredentials = ""
            /\ config.appleTvCompanionCredentials = ""
            /\ config.appleTvMrpCredentials = ""
    THEN << >>
    ELSE << [ identifier |-> config.appleTvIdentifier,
           address |-> config.appleTvAddress,
           credentials |-> [ mrp |-> config.appleTvMrpCredentials,
                             airplay |-> config.appleTvAirplayCredentials,
                             companion |-> config.appleTvCompanionCredentials ] ] >>

\* _getAppleTvConfig: << >> for null, else << the configuration >>
_getAppleTvConfig ==
    IF config.appleTvIdentifier = "" /\ config.appleTvAddress = "" THEN << >>
    ELSE IF config.appleTvAirplayCredentials = "" /\ config.appleTvCompanionCredentials = ""
    THEN << >>
    ELSE << [ identifier |-> config.appleTvIdentifier,
           address |-> config.appleTvAddress,
           credentials |-> [ mrp |-> config.appleTvMrpCredentials,
                             airplay |-> config.appleTvAirplayCredentials,
                             companion |-> config.appleTvCompanionCredentials ] ] >>

\* baseArgs of turnOnAppleTv
BaseArgs(cfg) ==
    << "-m" >>
    \o (IF cfg.identifier # "" THEN << "--id", cfg.identifier >> ELSE << >>)
    \o (IF cfg.address # "" THEN << "--address", cfg.address >> ELSE << >>)
    \o (IF cfg.credentials.mrp # ""
        THEN << "--mrp-credentials", cfg.credentials.mrp >> ELSE << >>)
    \o (IF cfg.credentials.airplay # ""
        THEN << "--airplay-credentials", cfg.credentials.airplay >> ELSE << >>)
    \o (IF cfg.credentials.companion # ""
        THEN << "--companion-credentials", cfg.credentials.companion >> ELSE << >>)

\* tryCommand(command): one execFile of atvremote with baseArgs and command
TryCommand(w, command) ==
    [w EXCEPT !.pc = "exec",
              !.attempted = Append(@, command),
              !.inflight = @ \cup { command }]

\* variant: .finally instead of .catch, home_hold runs after turn_on anyway
ExecCallback_Finally(w, command, outcome) ==
    LET w1 == [w EXCEPT !.inflight = @ \ { command },
                        !.outcomes = Append(@, outcome)]
    IN  IF command = "turn_on"
        THEN TryCommand(w1, "home_hold")
        ELSE IF outcome = "ok"
        THEN [w1 EXCEPT !.pc = "done", !.status = "success", !.label = command]
        ELSE [w1 EXCEPT !.pc = "done", !.status = "failed", !.error = command]

\* the execFile callback of tryCommand(command), and the promise chain
\* tryCommand('turn_on').catch(() => tryCommand('home_hold')) that hangs on it
ExecCallback(w, command, outcome) ==
    LET w1 == [w EXCEPT !.inflight = @ \ { command },
                        !.outcomes = Append(@, outcome)]
    IN  IF outcome = "ok"
        THEN [w1 EXCEPT !.pc = "done", !.status = "success", !.label = command]
        ELSE IF command = "turn_on"
        THEN TryCommand(w1, "home_hold")
        ELSE [w1 EXCEPT !.pc = "done", !.status = "failed", !.error = command]

\* the levels onStateChange, _getAppleTvConfig and ensureAtvremote log at when
\* power = true is written: 'Power on not possible' and 'Apple TV not paired
\* yet' are warnings, a missing identifier and address are not logged
PowerOnLevels ==
    IF ~config.useAppleTv THEN { "warn" }
    ELSE IF _getAppleTvConfig = << >>
    THEN IF config.appleTvIdentifier = "" /\ config.appleTvAddress = "" THEN {} ELSE { "warn" }
    ELSE { "info" } \cup (IF atvremote THEN { "debug" } ELSE { "warn" })

\* the levels logged when the cascade goes on or ends: 'Apple TV wake sent',
\* 'turn_on failed ..., trying home_hold' or 'Apple TV turn_on failed'
WakeLevels(w) ==
    IF w.status = "success" THEN { "info" }
    ELSE IF w.status = "failed" THEN { "error" }
    ELSE IF Len(w.outcomes) > 0 THEN { "warn", "debug" }
    ELSE { "info", "debug" }

\* onStateChange for power = true up to the first wait
PowerOn ==
    /\ wake.pc \in { "idle", "done" }
    /\ IF ~config.useAppleTv \/ _getAppleTvConfig = << >>
       THEN wake' = [InitWake EXCEPT !.pc = "done", !.status = "skipped"]
       ELSE LET w == [InitWake EXCEPT !.args = BaseArgs(_getAppleTvConfig[1])]
            IN  IF atvremote
                THEN wake' = TryCommand(w, "turn_on")
                ELSE wake' = [w EXCEPT !.pc = "install"]
    /\ log' = log \cup { LogEntry(0, level) : level \in PowerOnLevels }
    /\ UNCHANGED << scan, config, atvremote, pairProcess, unloaded, proc, start, fin, stored >>
    /\ UNCHANGED << calls, hs, poll >>

\* ensureAtvremote after installPyatv has called back, then the first command
WakeInstallDone(ok, found) ==
    /\ wake.pc = "install"
    /\ atvremote' = (atvremote \/ (ok /\ found))
    /\ IF ~ok
       THEN wake' = [wake EXCEPT !.pc = "done", !.status = "failed", !.error = "install"]
       ELSE IF ~atvremote'
       THEN wake' = [wake EXCEPT !.pc = "done", !.status = "failed", !.error = "notFound"]
       ELSE wake' = TryCommand(wake, "turn_on")
    /\ log' = log \cup { LogEntry(0, level) : level \in WakeLevels(wake') }
    /\ UNCHANGED << scan, config, pairProcess, unloaded, proc, start, fin, stored >>
    /\ UNCHANGED << calls, hs, poll >>

\* an execFile of the cascade calls back
WakeExecDone(command, outcome) ==
    /\ command \in wake.inflight
    /\ wake' = ExecCallback(wake, command, outcome)
    /\ log' = log \cup { LogEntry(0, level) : level \in WakeLevels(wake') }
    /\ UNCHANGED << scan, config, atvremote, pairProcess, unloaded, proc, start, fin, stored >>
    /\ UNCHANGED << calls, hs, poll >>

WakeConfigs ==
    { [ useAppleTv |-> u, appleTvIdentifier |-> i, appleTvAddress |-> a,
        appleTvMrpCredentials |-> m, appleTvAirplayCredentials |-> ap,
        appleTvCompanionCredentials |-> c ] :
        u \in BOOLEAN, i \in { "", "AA:BB:CC:DD:EE:FF" }, a \in { "", "192.168.1.20" },
        m \in { "", "mrpcred" }, ap \in { "", "airplaycred" }, c \in { "", "companioncred" } }

InitWakeSpec ==
    /\ config \in WakeConfigs
    /\ atvremote \in BOOLEAN
    /\ pairProcess = 0
    /\ unloaded = FALSE
    /\ proc = [p \in Procs |-> InitProc]
    /\ start = [s \in Procs |-> InitStart]
    /\ fin = [f \in Fins |-> InitFin]
    /\ stored = {}
    /\ wake = InitWake
    /\ scan = InitScan
    /\ InitCtl

NextWake ==
    \/ PowerOn
    \/ \E ok \in BOOLEAN, found \in BOOLEAN : WakeInstallDone(ok, found)
    \/ \E command \in { "turn_on", "home_hold" }, outcome \in ExecOutcomes :
          WakeExecDone(command, outcome)

SpecWake == InitWakeSpec /\ [][NextWake]_vars


\* ------------------------------------- the steps of the control client
\* pollStatus may send the requests new within the bound of the model
PollCallsLeft(new) ==
    Len(SelectSeq(calls, LAMBDA r : r.owner.kind = "poll")) + Len(new) <= MaxPollCalls

\* the event is one a response of this status ends with
EndEvent(statusCode) == IF statusCode = 200 THEN "end200" ELSE "endOther"

\* the listener has run on call c and left it as r1; when that settled the
\* call, whoever awaits it goes on in the same turn
Deliver(c, r1) ==
    LET cs == [calls EXCEPT ![c] = r1]
        o == r1.owner
    IN  IF SettledNow(calls[c], r1) /\ o.kind = "handler"
        THEN LET h1 == AfterCall(hs[o.id], r1)
             IN  /\ hs' = [hs EXCEPT ![o.id] = h1]
                 /\ calls' = cs
                 /\ log' = log \cup (IF h1.status = "failed"
                                     THEN { LogEntry(o.id, "error") } ELSE {})
                 /\ UNCHANGED poll
        ELSE IF SettledNow(calls[c], r1) /\ o.kind = "poll"
        THEN LET n == PollAfterCall(poll, o.id, r1)
             IN  /\ PollCallsLeft(n.call)
                 /\ poll' = n.poll
                 /\ calls' = cs \o n.call
                 /\ UNCHANGED << hs, log >>
        ELSE /\ calls' = cs
             /\ UNCHANGED << hs, poll, log >>

\* the response to call c has been read to its end
HttpEnd(c, statusCode, data) ==
    /\ c \in DOMAIN calls
    /\ calls[c].events = << >>
    /\ data \in Bodies(calls[c].op)
    /\ Deliver(c, OnEnd(Received(calls[c], EndEvent(statusCode), data), statusCode, data))
    /\ UNCHANGED << scan, config, atvremote, pairProcess, unloaded, proc, start, fin, stored, wake >>

\* the request of call c fails: the connection is refused or reset, or the
\* request has been destroyed before a response ('socket hang up')
HttpError(c) ==
    /\ c \in DOMAIN calls
    /\ calls[c].events \in { << >>, << "timeout" >> }
    /\ Deliver(c, OnError(Delivered(calls[c], "error")))
    /\ UNCHANGED << scan, config, atvremote, pairProcess, unloaded, proc, start, fin, stored, wake >>

\* the socket of call c has been idle for TIMEOUT ms
HttpTimeout(c) ==
    /\ c \in DOMAIN calls
    /\ calls[c].events = << >>
    /\ Deliver(c, OnTimeout(Delivered(calls[c], "timeout")))
    /\ UNCHANGED << scan, config, atvremote, pairProcess, unloaded, proc, start, fin, stored, wake >>

\* the arguments the model calls the client with
ApiArgs(op) ==
    CASE op = "sendKey" -> { "NRC_MUTE-ONOFF" }
      [] op = "setVolume" -> { "50" }
      [] op = "setMute" -> { "1" }
      [] OTHER -> { "" }

\* a caller invokes one operation of the client
ApiCall(op, arg) ==
    /\ Len(calls) < MaxApiCalls
    /\ arg \in ApiArgs(op)
    /\ calls' = Append(calls, IF op = "isAvailable"
                              THEN isAvailable(Owner("api", 0))
                              ELSE _soapRequest(op, arg, Owner("api", 0)))
    /\ UNCHANGED << hs, poll, log >>
    /\ UNCHANGED << scan, config, atvremote, pairProcess, unloaded, proc, start, fin, stored, wake >>

\* state writes handled so far; the power-on write is the one wake stands for
WritesUsed == Len(hs) + (IF wake.pc = "idle" THEN 0 ELSE 1)

\* onStateChange(id, state) up to its first await, for every write but
\* power = true
StateChange(channel, stateName, val, ack) ==
    /\ ~unloaded
    /\ poll.ready = "ok"
    /\ WritesUsed < MaxWrites
    /\ LET id == Len(hs) + 1
           d == Dispatch(id, NewHandler(channel, stateName, val, ack))
       IN  /\ hs' = Append(hs, d.h)
           /\ calls' = calls \o d.call
           /\ log' = log \cup { LogEntry(id, level) : level \in d.logs }
    /\ UNCHANGED poll
    /\ UNCHANGED << scan, config, atvremote, pairProcess, unloaded, proc, start, fin, stored, wake >>

\* the 300 ms pause of sendChannelNumber is over: the next digit, or the end
PauseElapsed(h) ==
    /\ h \in DOMAIN hs
    /\ hs[h].pc = "pause"
    /\ IF hs[h].digits = << >>
       THEN /\ hs' = [hs EXCEPT ![h].pc = "done"]
            /\ UNCHANGED calls
       ELSE /\ hs' = [hs EXCEPT ![h].pc = "call", ![h].digits = Tail(@),
                                ![h].ncalls = @ + 1]
            /\ calls' = Append(calls, _soapRequest("sendKey", DigitKey(Head(hs[h].digits)),
                                                   Owner("handler", h)))
    /\ UNCHANGED << poll, log >>
    /\ UNCHANGED << scan, config, atvremote, pairProcess, unloaded, proc, start, fin, stored, wake >>

\* the value onStateChange acknowledges after its request
AckValue(h) ==
    CASE h.channel = "remote" -> "false"
      [] h.stateName = "volume" -> LevelText(ParseInt(h.val))
      [] OTHER -> IF TruthyVal(h.val) THEN "true" ELSE "false"

\* the setStateAsync(id, value, true) of onStateChange has settled
AckDone(h, ok) ==
    /\ h \in DOMAIN hs
    /\ hs[h].pc = "ack"
    /\ IF ok
       THEN /\ hs' = [hs EXCEPT ![h].pc = "done", ![h].acked = AckValue(hs[h])]
            /\ UNCHANGED log
       ELSE /\ hs' = [hs EXCEPT ![h].pc = "done", ![h].status = "failed"]
            /\ log' = log \cup { LogEntry(h, "error") }
    /\ UNCHANGED << calls, poll >>
    /\ UNCHANGED << scan, config, atvremote, pairProcess, unloaded, proc, start, fin, stored, wake >>

\* onReady: the IP check, createStates, and pollStatus up to its first await
Ready(ip, createOk) ==
    /\ poll.ready = "none"
    /\ ~unloaded
    /\ IF ip = ""
       THEN /\ poll' = [poll EXCEPT !.ready = "noIp"]
            /\ UNCHANGED calls
       ELSE IF ~createOk
       THEN /\ poll' = [poll EXCEPT !.ready = "createFailed"]
            /\ UNCHANGED calls
       ELSE LET n == PollStart([poll EXCEPT !.ready = "ok"], "ready")
            IN  /\ poll' = n.poll
                /\ calls' = calls \o n.call
    /\ UNCHANGED << hs, log >>
    /\ UNCHANGED << scan, config, atvremote, pairProcess, unloaded, proc, start, fin, stored, wake >>

\* the interval timer of startPolling fires
PollTick ==
    /\ poll.timer = "armed"
    /\ LET n == PollStart(poll, "timer")
       IN  /\ PollCallsLeft(n.call)
           /\ poll' = n.poll
           /\ calls' = calls \o n.call
    /\ UNCHANGED << hs, log >>
    /\ UNCHANGED << scan, config, atvremote, pairProcess, unloaded, proc, start, fin, stored, wake >>

\* a setStateAsync of pollStatus call k has settled
PollWritten(k, ok) ==
    /\ k \in DOMAIN poll.cycles
    /\ poll.cycles[k].pc \in { "conn", "power", "volume", "mute" }
    /\ LET n == PollAfterWrite(poll, k, ok)
       IN  /\ PollCallsLeft(n.call)
           /\ poll' = n.poll
           /\ calls' = calls \o n.call
    /\ UNCHANGED << hs, log >>
    /\ UNCHANGED << scan, config, atvremote, pairProcess, unloaded, proc, start, fin, stored, wake >>

\* ------------------------------------------------ the client on its own
\* nothing is being paired and no wake is under way
InitRest ==
    /\ pairProcess = 0
    /\ unloaded = FALSE
    /\ proc = [p \in Procs |-> InitProc]
    /\ start = [s \in Procs |-> InitStart]
    /\ fin = [f \in Fins |-> InitFin]
    /\ stored = {}
    /\ wake = InitWake
    /\ scan = InitScan

InitSoap ==
    /\ config = Unpaired("", "")
    /\ atvremote = TRUE
    /\ InitRest
    /\ InitCtl

NextSoap ==
    \/ \E op \in SoapOps \cup { "isAvailable" } : \E arg \in ApiArgs(op) : ApiCall(op, arg)
    \/ \E c \in DOMAIN calls, statusCode \in Statuses :
          \E data \in Bodies(calls[c].op) : HttpEnd(c, statusCode, data)
    \/ \E c \in DOMAIN calls : HttpError(c)
    \/ \E c \in DOMAIN calls : HttpTimeout(c)

SpecSoap == InitSoap /\ [][NextSoap]_vars

\* ------------------------------------------------------- the poll cycles
InitPollSpec ==
    /\ config = Unpaired("", "")
    /\ atvremote = TRUE
    /\ InitRest
    /\ InitCtl

NextPoll ==
    \/ \E ip \in { "", "192.168.1.10" }, createOk \in BOOLEAN : Ready(ip, createOk)
    \/ PollTick
    \/ \E k \in DOMAIN poll.cycles, ok \in BOOLEAN : PollWritten(k, ok)
    \/ \E c \in DOMAIN calls, statusCode \in Statuses :
          \E data \in Bodies(calls[c].op) : HttpEnd(c, statusCode, data)
    \/ \E c \in DOMAIN calls : HttpError(c)
    \/ \E c \in DOMAIN calls : HttpTimeout(c)
    \/ Unload

SpecPoll == InitPollSpec /\ [][NextPoll]_vars

\* ---------------------------------------------------- the command states
\* onReady has run and its pollStatus has found the television unreachable
ReadyProbe == ProbeOnError(Delivered(isAvailable(Owner("poll", 1)), "error"))

InitReady ==
    /\ calls = << ReadyProbe >>
    /\ hs = << >>
    /\ log = {}
    /\ poll = PollAfterCall(PollStart([InitPoll EXCEPT !.ready = "ok"], "ready").poll,
                            1, ReadyProbe).poll

Write(channel, stateName, val) == [ channel |-> channel, stateName |-> stateName, val |-> val ]

\* writes to the channel state, and a digit button of the remote control
ChannelWrites ==
    { Write("0", "channel", "12"), Write("0", "channel", "123"), Write("remote", "d1", "true") }

InitChannel ==
    /\ config = Unpaired("", "")
    /\ atvremote = TRUE
    /\ InitRest
    /\ InitReady

NextChannel ==
    \/ \E w \in ChannelWrites : StateChange(w.channel, w.stateName, w.val, FALSE)
    \/ \E h \in DOMAIN hs : PauseElapsed(h)
    \/ \E h \in DOMAIN hs, ok \in BOOLEAN : AckDone(h, ok)
    \/ \E c \in DOMAIN calls, statusCode \in Statuses :
          \E data \in Bodies(calls[c].op) : HttpEnd(c, statusCode, data)
    \/ \E c \in DOMAIN calls : HttpError(c)
    \/ \E c \in DOMAIN calls : HttpTimeout(c)

SpecChannel == InitChannel /\ [][NextChannel]_vars

\* writes to every command state but power = true
CommandWrites ==
    { Write("remote", "mute", "true"), Write("0", "power", "false"),
      Write("0", "volume", "50"), Write("0", "volume", "150"),
      Write("0", "mute", "true"),
      Write("0", "channel", "7"), Write("0", "channel", "12"),
      Write("0", "input", "HDMI1"), Write("0", "input", "hdmi9") }

\* the Apple TV settings: off, on without a device, on and unpaired, on and paired
CmdConfigs ==
    { Unpaired("", ""),
      [Unpaired("", "") EXCEPT !.useAppleTv = TRUE],
      [Unpaired("AA:BB:CC:DD:EE:FF", "") EXCEPT !.useAppleTv = TRUE],
      [Unpaired("AA:BB:CC:DD:EE:FF", "") EXCEPT !.useAppleTv = TRUE,
                                                !.appleTvCompanionCredentials = "companioncred"] }

\* power = true is written, once within the writes the model handles
PowerOnWrite ==
    /\ WritesUsed < MaxWrites
    /\ wake.pc = "idle"
    /\ PowerOn

InitCmd ==
    /\ config \in CmdConfigs
    /\ atvremote \in BOOLEAN
    /\ InitRest
    /\ InitReady

NextCmd ==
    \/ \E w \in CommandWrites, ack \in BOOLEAN : StateChange(w.channel, w.stateName, w.val, ack)
    \/ PowerOnWrite
    \/ \E ok \in BOOLEAN, found \in BOOLEAN : WakeInstallDone(ok, found)
    \/ \E command \in { "turn_on", "home_hold" }, outcome \in ExecOutcomes :
          WakeExecDone(command, outcome)
    \/ \E h \in DOMAIN hs : PauseElapsed(h)
    \/ \E h \in DOMAIN hs, ok \in BOOLEAN : AckDone(h, ok)
    \/ \E c \in DOMAIN calls, statusCode \in Statuses :
          \E data \in Bodies(calls[c].op) : HttpEnd(c, statusCode, data)
    \/ \E c \in DOMAIN calls : HttpError(c)
    \/ \E c \in DOMAIN calls : HttpTimeout(c)

SpecCmd == InitCmd /\ [][NextCmd]_vars

\* ------------------------------------- acknowledged and deleted states
\* the states whose changes come back to onStateChange with ack = true
\* (written by pollStatus or by a handler), or with no state at all
EchoWrites ==
    { Write("0", "power", "true"), Write("0", "volume", "50"),
      Write("0", "channel", "7"), Write("remote", "mute", "true") }

\* commands written by a user next to them
UserWrites == { Write("0", "volume", "50"), Write("remote", "mute", "true") }

\* Apple TV wake enabled and paired, atvremote in place
InitEcho ==
    /\ config = [Unpaired("AA:BB:CC:DD:EE:FF", "") EXCEPT
                    !.useAppleTv = TRUE, !.appleTvCompanionCredentials = "companioncred"]
    /\ atvremote = TRUE
    /\ InitRest
    /\ InitReady

NextEcho ==
    \/ \E w \in EchoWrites : StateChange(w.channel, w.stateName, w.val, TRUE)
    \/ \E w \in EchoWrites : StateChange(w.channel, w.stateName, NoState, FALSE)
    \/ \E w \in UserWrites : StateChange(w.channel, w.stateName, w.val, FALSE)
    \/ PowerOnWrite
    \/ \E command \in { "turn_on", "home_hold" }, outcome \in ExecOutcomes :
          WakeExecDone(command, outcome)
    \/ \E h \in DOMAIN hs, ok \in BOOLEAN : AckDone(h, ok)
    \/ \E c \in DOMAIN calls, statusCode \in Statuses :
          \E data \in Bodies(calls[c].op) : HttpEnd(c, statusCode, data)
    \/ \E c \in DOMAIN calls : HttpError(c)
    \/ \E c \in DOMAIN calls : HttpTimeout(c)

SpecEcho == InitEcho /\ [][NextEcho]_vars


\* ------------------------------------------------- setVolume on its own
\* levels a caller sets, in tenths: below 0, between two whole numbers and
\* halfway, above 100
VolumeInputs == { -15, -5, -4, 0, 4, 5, 14, 15, 25, 504, 995, 1000, 1004, 1005, 1500 }

\* a caller invokes setVolume(level)
SetVolumeCall(level) ==
    /\ Len(calls) < MaxApiCalls
    /\ calls' = Append(calls, setVolume(level, Owner("api", 0)))
    /\ UNCHANGED << hs, poll, log >>
    /\ UNCHANGED << scan, config, atvremote, pairProcess, unloaded, proc, start, fin, stored, wake >>

NextVolume ==
    \/ \E level \in VolumeInputs : SetVolumeCall(level)
    \/ \E c \in DOMAIN calls, statusCode \in Statuses :
          \E data \in Bodies(calls[c].op) : HttpEnd(c, statusCode, data)
    \/ \E c \in DOMAIN calls : HttpError(c)
    \/ \E c \in DOMAIN calls : HttpTimeout(c)

SpecVolume == InitSoap /\ [][NextVolume]_vars


\* ---------------------------------------------------------------- sendKey
\* key names a caller passes to sendKey: bare names, names with the prefix
\* and the suffix, and names with one of the two or with the prefix in
\* lower case
KeyInputs ==
    { "VOLUP", "D3", "nrc_VOLUP", "VOLUP-ONOFF", "NRC", "NRC_VOLUP",
      "NRC_VOLUP-ONOFF", "NRC_D3-ONOFF", "NRC_nrc_VOLUP-ONOFF", "NRC_VOLUP-ONOFF-ONOFF",
      "NRC_NRC-ONOFF" }

\* the characters of a key name
Chars(key) ==
    CASE key = "VOLUP" -> << "V", "O", "L", "U", "P" >>
      [] key = "D3" -> << "D", "3" >>
      [] key = "nrc_VOLUP" -> << "n", "r", "c", "_", "V", "O", "L", "U", "P" >>
      [] key = "VOLUP-ONOFF" -> << "V", "O", "L", "U", "P", "-", "O", "N", "O", "F",
                      "F" >>
      [] key = "NRC" -> << "N", "R", "C" >>
      [] key = "NRC_VOLUP" -> << "N", "R", "C", "_", "V", "O", "L", "U", "P" >>
      [] key = "NRC_VOLUP-ONOFF" -> << "N", "R", "C", "_", "V", "O", "L", "U", "P",
                      "-", "O", "N", "O", "F", "F" >>
      [] key = "NRC_D3-ONOFF" -> << "N", "R", "C", "_", "D", "3", "-", "O", "N", "O",
                      "F", "F" >>
      [] key = "NRC_nrc_VOLUP-ONOFF" -> << "N", "R", "C", "_", "n", "r", "c", "_", "V",
                      "O", "L", "U", "P", "-", "O", "N", "O", "F", "F" >>
      [] key = "NRC_VOLUP-ONOFF-ONOFF" -> << "N", "R", "C", "_", "V", "O", "L", "U",
                      "P", "-", "O", "N", "O", "F", "F", "-", "O", "N", "O", "F", "F" >>
      [] key = "NRC_NRC-ONOFF" -> << "N", "R", "C", "_", "N", "R", "C", "-", "O", "N",
                      "O", "F", "F" >>

\* the string with these characters
Text(chars) == CHOOSE key \in KeyInputs : Chars(key) = chars

\* s.startsWith(prefix), on characters
StartsWith(s, prefix) == Len(s) >= Len(prefix) /\ SubSeq(s, 1, Len(prefix)) = prefix

\* variant: the key is sent as it was given
sendKey_Verbatim(key, owner) ==
    [ _soapRequest("sendKey", key, owner) EXCEPT !.input = key ]

\* sendKey(key): key.startsWith('NRC_') ? key : `NRC_${key}-ONOFF`
sendKey(key, owner) ==
    LET keyEvent == IF StartsWith(Chars(key), << "N", "R", "C", "_" >>)
                    THEN Chars(key)
                    ELSE << "N", "R", "C", "_" >> \o Chars(key)
                         \o << "-", "O", "N", "O", "F", "F" >>
    IN  [ _soapRequest("sendKey", Text(keyEvent), owner) EXCEPT !.input = key ]

\* a caller invokes sendKey(key)
SendKeyCall(key) ==
    /\ Len(calls) < MaxApiCalls
    /\ calls' = Append(calls, sendKey(key, Owner("api", 0)))
    /\ UNCHANGED << hs, poll, log >>
    /\ UNCHANGED << scan, config, atvremote, pairProcess, unloaded, proc, start, fin, stored, wake >>

NextKey ==
    \/ \E key \in KeyInputs : SendKeyCall(key)
    \/ \E c \in DOMAIN calls, statusCode \in Statuses :
          \E data \in Bodies(calls[c].op) : HttpEnd(c, statusCode, data)
    \/ \E c \in DOMAIN calls : HttpError(c)
    \/ \E c \in DOMAIN calls : HttpTimeout(c)

SpecKey == InitSoap /\ [][NextKey]_vars

\* ------------------------------------------------------- discovery (4.6)
\* blocks of lines atvremote scan is let to print; the first two have the
\* layout pyatv prints (an 'Identifiers:' list), the next two a line per
\* identifier
ScanBlocks ==
    { << "Name: Living Room", "Address: 192.168.1.20", "MAC: AA:BB:CC:DD:EE:FF",
         "Identifiers:", " - AA:BB:CC:DD:EE:FF", " - XYZ123" >>,
      << "Name: Kitchen", "Identifiers:", " - XYZ123", " - AA:BB:CC:DD:EE:FF" >>,
      << "Name: Bedroom", "Identifier: XYZ123", "Address: 192.168.1.21" >>,
      << "Name: Office", "Identifier: XYZ123", "Identifier: AA:BB:CC:DD:EE:FF" >>,
      << "Name: Hall", "MAC: AA:BB:CC:DD:EE:FF" >>,
      << "Address: 192.168.1.20" >>,
      << "Scan Results" >> }

\* blocks in one scan output
MaxBlocks == 2

\* the blocks, separated by one empty line
RECURSIVE JoinBlocks(_)
JoinBlocks(bs) ==
    IF bs = << >> THEN << >>
    ELSE IF Len(bs) = 1 THEN Head(bs)
    ELSE Head(bs) \o << "" >> \o JoinBlocks(Tail(bs))

\* what atvremote scan can print
ScanOutputs ==
    { JoinBlocks(bs) : bs \in UNION { [1..n -> ScanBlocks] : n \in 0..MaxBlocks } }

\* stdout.split(/\n\s*\n/): the runs of lines between empty lines; the
\* separator takes in the empty lines that follow it
RECURSIVE SplitBlocks(_, _)
SplitBlocks(lines, block) ==
    IF lines = << >> THEN << block >>
    ELSE IF Head(lines) = ""
    THEN << block >> \o SplitBlocks(TrimLeft(Tail(lines)), << >>)
    ELSE SplitBlocks(Tail(lines), Append(block, Head(lines)))

\* /Name:\s*(.+)/i on a line: the capture, NULL without a match
NameIn(l) ==
    CASE l = "Name: Living Room" -> "Living Room"
      [] l = "Name: Kitchen" -> "Kitchen"
      [] l = "Name: Bedroom" -> "Bedroom"
      [] l = "Name: Office" -> "Office"
      [] l = "Name: Hall" -> "Hall"
      [] OTHER -> NULL

\* /Identifier:\s*(.+)/i on a line; 'Identifiers:' has no ':' after
\* 'Identifier' and does not match
IdentifierIn(l) ==
    CASE l = "Identifier: XYZ123" -> "XYZ123"
      [] l = "Identifier: AA:BB:CC:DD:EE:FF" -> "AA:BB:CC:DD:EE:FF"
      [] OTHER -> NULL

\* /Address:\s*(.+)/i on a line
AddressIn(l) ==
    CASE l = "Address: 192.168.1.20" -> "192.168.1.20"
      [] l = "Address: 192.168.1.21" -> "192.168.1.21"
      [] OTHER -> NULL

\* the capture of one of the three regular expressions on a line
CaptureIn(field, l) ==
    CASE field = "name" -> NameIn(l)
      [] field = "identifier" -> IdentifierIn(l)
      [] field = "address" -> AddressIn(l)

\* (block.match(re) || [])[1]: the capture of the first line that matches
RECURSIVE FirstMatch(_, _)
FirstMatch(field, block) ==
    IF block = << >> THEN NULL
    ELSE IF CaptureIn(field, Head(block)) # NULL THEN CaptureIn(field, Head(block))
    ELSE FirstMatch(field, Tail(block))

\* the loop body of scanAppleTvs: the device of a block, << >> for none
DeviceOf(block) ==
    LET name == FirstMatch("name", block)
        id == FirstMatch("identifier", block)
        addr == FirstMatch("address", block)
    IN  IF name # NULL /\ id # NULL
        THEN << [ name |-> name, identifier |-> id,
                  address |-> IF addr = NULL THEN "" ELSE addr ] >>
        ELSE << >>

RECURSIVE DevicesOf(_)
DevicesOf(blocks) ==
    IF blocks = << >> THEN << >>
    ELSE DeviceOf(Head(blocks)) \o DevicesOf(Tail(blocks))

\* the execFile callback of scanAppleTvs on success
ParseScan(stdout) == DevicesOf(SplitBlocks(stdout, << >>))

\* onMessage 'scanAppleTv' up to the first wait: ensureAtvremote, then
\* execFile(atvremotePath, ['scan'])
ScanAppleTv ==
    /\ ~unloaded
    /\ scan.pc = "idle"
    /\ scan' = IF atvremote
               THEN [scan EXCEPT !.pc = "exec", !.execs = @ + 1]
               ELSE [scan EXCEPT !.pc = "install", !.installs = @ + 1]
    /\ UNCHANGED << config, atvremote, pairProcess, unloaded, proc, start, fin, stored, wake >>
    /\ UNCHANGED ctlVars

\* ensureAtvremote after installPyatv has called back, then the scan
ScanInstallDone(ok, found) ==
    /\ scan.pc = "install"
    /\ atvremote' = (atvremote \/ (ok /\ found))
    /\ scan' = IF ~ok
               THEN [scan EXCEPT !.pc = "done", !.status = "failed", !.error = "install"]
               ELSE IF ~atvremote'
               THEN [scan EXCEPT !.pc = "done", !.status = "failed", !.error = "notFound"]
               ELSE [scan EXCEPT !.pc = "exec", !.execs = @ + 1]
    /\ UNCHANGED << config, pairProcess, unloaded, proc, start, fin, stored, wake >>
    /\ UNCHANGED ctlVars

\* the execFile of atvremote scan calls back; the handler saves the first
\* device found to the adapter's settings
ScanExecDone(outcome, stdout) ==
    /\ scan.pc = "exec"
    /\ scan' = IF outcome = "ok"
               THEN LET devices == ParseScan(stdout)
                    IN  [scan EXCEPT !.pc = "done", !.status = "ok", !.stdout = stdout,
                                     !.devices = devices,
                                     !.saved = IF devices = << >> THEN << >>
                                               ELSE << Head(devices) >>]
               ELSE [scan EXCEPT !.pc = "done", !.status = "failed", !.error = outcome]
    /\ UNCHANGED << config, atvremote, pairProcess, unloaded, proc, start, fin, stored, wake >>
    /\ UNCHANGED ctlVars

InitScanSpec ==
    /\ config = Unpaired("", "")
    /\ atvremote \in BOOLEAN
    /\ InitRest
    /\ InitCtl

NextScan ==
    \/ ScanAppleTv
    \/ \E ok \in BOOLEAN, found \in BOOLEAN : ScanInstallDone(ok, found)
    \/ \E outcome \in ExecOutcomes, stdout \in ScanOutputs : ScanExecDone(outcome, stdout)

SpecScan == InitScanSpec /\ [][NextScan]_vars


\* --------------------------------------- every operation, with fairness
\* messages and chunks of the pairing handlers in one run of this
\* specification: startPairing, its PIN prompt, submitPin
MaxLiveEvents == 3

\* the calls the control client can have made: the probe of onReady, the
\* direct calls, and one request per digit of the channels written
CallIds == 1..(1 + MaxApiCalls + 2 * MaxWrites)

\* the operation families, of which one run exercises one: nothing of the
\* others has been started
PairingIdle ==
    /\ \A s \in Procs : start[s].pc = "idle"
    /\ \A f \in Fins : fin[f].pc = "idle"
ControlIdle == Len(calls) = 1 /\ hs = << >>
OnlyPairing == wake.pc = "idle" /\ scan.pc = "idle" /\ ControlIdle
OnlyWake == PairingIdle /\ scan.pc = "idle" /\ ControlIdle
OnlyScan == PairingIdle /\ wake.pc = "idle" /\ ControlIdle
OnlyControl == PairingIdle /\ wake.pc = "idle" /\ scan.pc = "idle"

\* onReady has run; the Apple TV is set up and paired; atvremote is
\* installed or not
InitLive ==
    /\ config = [Unpaired("AA:BB:CC:DD:EE:FF", "192.168.1.20") EXCEPT
                    !.useAppleTv = TRUE, !.appleTvCompanionCredentials = "companioncred"]
    /\ atvremote \in BOOLEAN
    /\ InitRest
    /\ InitReady

NextLive ==
    \/ \E s \in Procs, spawnOk \in BOOLEAN :
          OnlyPairing /\ StartPairingWithin(MaxLiveEvents, s, spawnOk)
    \/ \E s \in Procs, ok \in BOOLEAN, found \in BOOLEAN, spawnOk \in BOOLEAN :
          PairInstallDone(s, ok, found, spawnOk)
    \/ \E p \in Procs : ProcDataWithin(MaxLiveEvents, p, "Enter PIN: ")
    \/ \E p \in Procs, code \in ExitCodes : ProcExit(p, code)
    \/ \E p \in Procs : ProcError(p)
    \/ \E s \in Procs : PairStartTimeout(s)
    \/ \E f \in Fins, writeOk \in BOOLEAN :
          OnlyPairing /\ SubmitPinWithin(MaxLiveEvents, f, TRUE, writeOk)
    \/ \E f \in Fins : PairFinishTimeout(f)
    \/ OnlyWake /\ PowerOnWrite
    \/ \E ok \in BOOLEAN, found \in BOOLEAN : WakeInstallDone(ok, found)
    \/ \E command \in { "turn_on", "home_hold" }, outcome \in ExecOutcomes :
          WakeExecDone(command, outcome)
    \/ OnlyScan /\ ScanAppleTv
    \/ \E ok \in BOOLEAN, found \in BOOLEAN : ScanInstallDone(ok, found)
    \/ \E outcome \in ExecOutcomes : ScanExecDone(outcome, << >>)
    \/ \E op \in SoapOps \cup { "isAvailable" } : \E arg \in ApiArgs(op) :
          OnlyControl /\ hs = << >> /\ ApiCall(op, arg)
    \/ \E val \in { "7", "12" } :
          OnlyControl /\ Len(calls) = 1 + 2 * Len(hs)
             /\ StateChange("0", "channel", val, FALSE)
    \/ \E h \in DOMAIN hs : PauseElapsed(h)
    \/ \E c \in DOMAIN calls, statusCode \in Statuses :
          \E data \in Bodies(calls[c].op) : HttpEnd(c, statusCode, data)
    \/ \E c \in DOMAIN calls : HttpError(c)
    \/ \E c \in DOMAIN calls : HttpTimeout(c)

\* what the runtime guarantees: an armed timer fires (setTimeout in pairStart
\* and pairFinish, the socket timeout of a request, the pause of
\* sendChannelNumber), a failed spawn reports its error, and an execFile
\* started with a timeout option calls back.  Nothing is assumed of a
\* subprocess that nobody bounds: it may print or exit, or never do so.
FairLive ==
    /\ \A s \in Procs : WF_vars(PairStartTimeout(s))
    /\ \A f \in Fins : WF_vars(PairFinishTimeout(f))
    /\ \A p \in Procs : WF_vars(ProcError(p))
    /\ \A s \in Procs :
          WF_vars(\E ok \in BOOLEAN, found \in BOOLEAN, spawnOk \in BOOLEAN :
                     PairInstallDone(s, ok, found, spawnOk))
    /\ WF_vars(\E ok \in BOOLEAN, found \in BOOLEAN : WakeInstallDone(ok, found))
    /\ \A command \in { "turn_on", "home_hold" } :
          WF_vars(\E outcome \in ExecOutcomes : WakeExecDone(command, outcome))
    /\ WF_vars(\E ok \in BOOLEAN, found \in BOOLEAN : ScanInstallDone(ok, found))
    /\ WF_vars(\E outcome \in ExecOutcomes : ScanExecDone(outcome, << >>))
    /\ \A c \in CallIds : WF_vars(HttpTimeout(c))
    /\ \A h \in 1..MaxWrites : WF_vars(PauseElapsed(h))

SpecLive == InitLive /\ [][NextLive]_vars /\ FairLive


\* ================================================================= claims

\* C1: the wake cascade attempts its strategies strictly in list order and
\* one at a time; a strategy is attempted only after the one before it has
\* failed, and a failed strategy that is not the last is followed by the
\* next; the first success ends the cascade with a success result labelled
\* with that strategy, and nothing is attempted after it.
C1_CascadeInOrder ==
    LET n == Len(wake.attempted)
        m == Len(wake.outcomes)
    IN  /\ n <= Len(Strategies)
        /\ \A i \in 1..n : wake.attempted[i] = Strategies[i]
        /\ Cardinality(wake.inflight) <= 1
        /\ m <= n
        /\ wake.inflight = (IF m < n THEN { wake.attempted[n] } ELSE {})
        /\ \A i \in 1..m : i < n => wake.outcomes[i] # "ok"
        /\ \A i \in 1..m : (wake.outcomes[i] # "ok" /\ i < Len(Strategies)) => n >= i + 1
        /\ \A i \in 1..m : wake.outcomes[i] = "ok" =>
              /\ n = i
              /\ wake.pc = "done"
              /\ wake.status = "success"
              /\ wake.label = Strategies[i]
        /\ wake.status = "success" => (m = n /\ n >= 1 /\ wake.outcomes[n] = "ok")

\* strategy 1 has failed and strategy 2 has succeeded
C1_Witness ==
    /\ wake.status = "success"
    /\ wake.label = "home_hold"
    /\ wake.outcomes[1] # "ok"

\* a subprocess that runs and has not been sent a termination signal
Live(p) == proc[p].st = "running" /\ ~proc[p].killed

\* C2: at every moment at most one pairing subprocess started by the adapter
\* is alive (running and not yet told to terminate), for every interleaving
\* of startPairing, submitPin and unload.
C2_AtMostOneLive == Cardinality({ p \in Procs : Live(p) }) <= 1

\* C3: whenever pairStart or pairFinish has settled in a final state (paired,
\* failed, timed out, PIN write failed), or the session has been cancelled,
\* or it has been abandoned (it awaited a PIN, the adapter no longer holds it
\* and no pairFinish is pending on it), its subprocess has exited or has been
\* sent a termination signal.
C3_ReleasedOnEveryExit ==
    /\ \A s \in Procs :
          start[s].result \in { "paired", "exitFailed", "timeout", "spawnError" }
             => ~Live(s)
    /\ \A f \in Fins :
          fin[f].result \in { "paired", "exitFailed", "timeout", "writeFailed" }
             => ~Live(fin[f].proc)
    /\ \A p \in Procs : proc[p].cancelled => ~Live(p)
    /\ \A p \in Procs :
          ( /\ start[p].result = "awaitingPin"
            /\ pairProcess # p
            /\ \A f \in Fins : ~(fin[f].pc = "waiting" /\ fin[f].proc = p) )
             => ~Live(p)

\* C4: once a session has been cancelled by the adapter, a pairStart or
\* pairFinish call still pending on it never resolves with status paired and
\* none of its credentials are stored.
C4_NoSuccessAfterCancel ==
    [][ /\ \A f \in Fins :
              (fin[f].pc = "waiting" /\ proc[fin[f].proc].cancelled /\ fin'[f].pc = "done")
                 => fin'[f].result # "paired"
        /\ \A s \in Procs :
              (start[s].pc = "waiting" /\ proc[s].cancelled /\ start'[s].pc = "done")
                 => start'[s].result # "paired"
        /\ \A c \in stored' \ stored : ~proc[c.proc].cancelled ]_vars

\* C5: a submitted PIN that meets no session awaiting a PIN, or a session
\* whose subprocess has already terminated (killed, or exited on its own),
\* fails at once with the no-active-session error: nothing is written to the
\* subprocess, no listener and no timer is set up, and no signal is sent.
C5_NoActiveSessionFailsAtOnce ==
    [][ \A f \in Fins :
          ( /\ fin[f].pc = "idle"
            /\ fin'[f].pc # "idle"
            /\ fin'[f].result # "noPin"
            /\ \/ pairProcess = 0
               \/ proc[pairProcess].st # "running"
               \/ proc[pairProcess].killed )
             => /\ fin'[f].pc = "done"
                /\ fin'[f].result \in { "noProcess", "noActiveSession" }
                /\ fin'[f].timer = "none"
                /\ ~fin'[f].wrote
                /\ proc' = proc ]_vars

\* C6: in pairStart, when the accumulated output comes to contain the PIN
\* prompt while the call is pending (the timer has not fired, the process has
\* not exited), the call resolves with awaitingPin and the adapter gets the
\* handle of the subprocess, which is running and has not been signalled;
\* resolve/reject is called exactly once for that call, and its timer is
\* disarmed from then on.
C6_PromptGivesLiveHandle ==
    /\ [][ \A s \in Procs :
             ( /\ start[s].pc = "waiting"
               /\ ~IncludesPinPrompt(proc[s].out)
               /\ IncludesPinPrompt(proc'[s].out) )
                => /\ start'[s].result = "awaitingPin"
                   /\ pairProcess' = s
                   /\ Live(s)'
                   /\ proc'[s].signals = 0 ]_vars
    /\ [](\A s \in Procs :
             start[s].result = "awaitingPin"
                => start[s].nsettle = 1 /\ start[s].timer = "cleared")

\* a call has resolved with awaitingPin, then a further chunk has arrived
C6_Witness ==
    \E s \in Procs :
        /\ start[s].result = "awaitingPin"
        /\ Live(s)
        /\ Len(proc[s].out) >= 2

\* C7: in pairFinish, after the PIN has been written, the process exit gives:
\* extracted credentials -> paired with them ('Credentials: deadbeef01' gives
\* deadbeef01); none and exit code 0 -> paired with the trimmed raw output;
\* none and another exit code -> failed.
C7_FinishOutcomeOnExit ==
    [][ \A f \in Fins :
          ( /\ fin[f].pc = "waiting"
            /\ fin[f].wrote
            /\ proc[fin[f].proc].st = "running"
            /\ proc'[fin[f].proc].st = "exited" )
             => LET output == FinOutput(proc, fin[f])
                    code == proc'[fin[f].proc].code
                    credentials == _extractCredentials(output)
                IN  /\ credentials # NULL =>
                          fin'[f].result = "paired" /\ fin'[f].cred = Token(credentials)
                    /\ (\E i \in 1..Len(output) : output[i] = "Credentials: deadbeef01") =>
                          fin'[f].result = "paired" /\ fin'[f].cred = Token("deadbeef01")
                    /\ (credentials = NULL /\ code = "0") =>
                          /\ fin'[f].result = "paired"
                          /\ fin'[f].cred = RawText(Trim(output))
                    /\ (credentials = NULL /\ code # "0") =>
                          fin'[f].result = "exitFailed" ]_vars

\* the PIN was written, the process printed the credentials and exited with 0
C7_Witness ==
    \E f \in Fins :
        /\ fin[f].wrote
        /\ fin[f].result = "paired"
        /\ fin[f].cred = Token("deadbeef01")
        /\ proc[fin[f].proc].code = "0"

\* C8: in pairStart, when the subprocess exits while the call is pending (no
\* PIN prompt was seen), credentials found in the output give paired with
\* them, and none with a non-zero exit code gives failed; after the exit the
\* call never becomes awaitingPin and the adapter never takes the handle.
C8_ExitBeforePrompt ==
    [][ \A s \in Procs :
          /\ ( /\ start[s].pc = "waiting"
               /\ proc[s].st = "running"
               /\ proc'[s].st = "exited" )
                => LET credentials == _extractCredentials(proc[s].out)
                   IN  /\ credentials # NULL =>
                             /\ start'[s].result = "paired"
                             /\ start'[s].cred = Token(credentials)
                       /\ (credentials = NULL /\ proc'[s].code # "0") =>
                             start'[s].result = "exitFailed"
          /\ (proc[s].st = "exited" /\ start[s].result # "awaitingPin")
                => (start'[s].result # "awaitingPin" /\ pairProcess' # s) ]_vars

\* the process exited with 1 before any prompt, and a prompt arrived late
C8_Witness ==
    \E s \in Procs :
        /\ start[s].result = "exitFailed"
        /\ proc[s].code = "1"
        /\ IncludesPinPrompt(proc[s].out)

\* C9: in pairStart, when the 30 s timer fires (no PIN prompt and no exit came
\* before it), the call fails with the timeout error and the subprocess has
\* been sent a termination signal; a PIN prompt or an exit that comes later
\* changes nothing of this.
C9_TimeoutFailsAndKills ==
    \A s \in Procs :
        start[s].timer = "fired"
           => /\ start[s].result = "timeout"
              /\ start[s].pc = "done"
              /\ proc[s].killed
              /\ proc[s].signals >= 1
              /\ pairProcess # s

\* the timer fired, then the prompt arrived and the process exited
C9_Witness ==
    \E s \in Procs :
        /\ start[s].timer = "fired"
        /\ IncludesPinPrompt(proc[s].out)
        /\ proc[s].st = "exited"

\* the steps that run the cancellation code: startPairing with a scanned
\* device, and onUnload
CancelStep ==
    \/ ~unloaded /\ unloaded'
    \/ \E s \in Procs : start[s].pc = "idle" /\ start'[s].pc \in { "waiting", "install" }

\* C10: cancelling leaves the adapter without a session handle; a session that
\* has been cancelled is never the adapter's session again and gets no signal
\* from a later cancellation, and cancelling a session whose subprocess has
\* already exited sends no signal.
C10_CancelIdempotent ==
    /\ [][ CancelStep =>
             /\ pairProcess' = 0
             /\ \A p \in Procs :
                   (proc[p].cancelled \/ proc[p].st # "running")
                      => proc'[p].signals = proc[p].signals ]_vars
    /\ [](\A p \in Procs : proc[p].cancelled => pairProcess # p)

\* two cancellations have run (a replacing startPairing and onUnload), and
\* the first session got one signal
C10_Witness ==
    /\ unloaded
    /\ pairProcess = 0
    /\ \E s \in Procs : s > 1 /\ start[s].pc # "idle"
    /\ proc[1].cancelled
    /\ proc[1].signals = 1

\* C11: when every strategy of the wake cascade has failed, turnOnAppleTv
\* fails with one all-strategies-failed error that aggregates the number of
\* strategies attempted, not with the error of one individual strategy.
C11_AggregatedFailure ==
    ( /\ wake.status = "failed"
      /\ Len(wake.outcomes) = Len(Strategies)
      /\ \A i \in 1..Len(wake.outcomes) : wake.outcomes[i] # "ok" )
       => /\ wake.error = "allStrategiesFailed"
          /\ \A i \in 1..Len(Strategies) : wake.error # Strategies[i]

\* the client calls of invocation h, in the order they were started
CallsOf(h) == SelectSeq(calls, LAMBDA r : r.owner = Owner("handler", h))

\* invocation h runs sendChannelNumber
ChannelEntry(h) ==
    /\ hs[h].channel # "remote"
    /\ hs[h].stateName = "channel"
    /\ ~hs[h].ack
    /\ ~IsNaN(hs[h].val)
    /\ ParseInt(hs[h].val) > 0

\* the digit keys of the number invocation h enters, most significant first
ExpectedKeys(h) ==
    LET digits == Digits(ParseInt(hs[h].val))
    IN  [ i \in 1..Len(digits) |-> DigitKey(digits[i]) ]

\* the key presses of h so far are the first digits of its number, in order,
\* and each was started only after the one before it had succeeded
SequentialDigits(h) ==
    LET cs == CallsOf(h)
        keys == ExpectedKeys(h)
    IN  /\ Len(cs) <= Len(keys)
        /\ \A i \in 1..Len(cs) : cs[i].op = "sendKey" /\ cs[i].arg = keys[i]
        /\ \A i \in 1..Len(cs) : i < Len(cs) => cs[i].outcome = "resolved"
        /\ hs[h].pc \in { "pause", "done" } => \A i \in 1..Len(cs) : cs[i].resolved

\* a key press of h is started in this step only after the pause
StartedAfterPause(h) ==
    Len(SelectSeq(calls', LAMBDA r : r.owner = Owner("handler", h))) > Len(CallsOf(h))
       => hs[h].pc = "pause"

\* C12 as stated: sendChannelNumber(n) issues exactly one digit key press per
\* decimal digit of n, most significant first and strictly sequentially, the
\* next only after the one before has completed and the pause has elapsed.
C12_OneKeyPerDigit ==
    /\ [](\A h \in DOMAIN hs : ChannelEntry(h) =>
             /\ SequentialDigits(h)
             /\ hs[h].pc = "done" => Len(CallsOf(h)) = Len(ExpectedKeys(h)))
    /\ [][\A h \in DOMAIN hs : ChannelEntry(h) => StartedAfterPause(h)]_vars

\* C12 amended: sendChannelNumber(n) issues the digit key presses of n most
\* significant first and strictly sequentially, the next only after the one
\* before has succeeded and the pause has elapsed; it issues one per decimal
\* digit when every request succeeds and stops at the first request that
\* fails, whose error it passes on.
C12_KeysUntilFirstFailure ==
    /\ [](\A h \in DOMAIN hs : ChannelEntry(h) =>
             /\ SequentialDigits(h)
             /\ (hs[h].pc = "done" /\ hs[h].status = "returned")
                   => Len(CallsOf(h)) = Len(ExpectedKeys(h))
             /\ (hs[h].pc = "done" /\ hs[h].status = "failed")
                   => CallsOf(h)[Len(CallsOf(h))].outcome = "rejected")
    /\ [][\A h \in DOMAIN hs : ChannelEntry(h) => StartedAfterPause(h)]_vars

\* channel 123 has been entered with the three key presses D1, D2, D3
C12_Witness ==
    \E h \in DOMAIN hs :
        /\ hs[h].val = "123"
        /\ hs[h].stateName = "channel"
        /\ hs[h].pc = "done"
        /\ Len(CallsOf(h)) = 3
        /\ CallsOf(h)[1].arg = "NRC_D1-ONOFF"
        /\ CallsOf(h)[2].arg = "NRC_D2-ONOFF"
        /\ CallsOf(h)[3].arg = "NRC_D3-ONOFF"

\* C13: the adapter never has two channel-entry operations in flight at the
\* same time: for every sequence of writes to the channel state, the digit
\* key presses of one sendChannelNumber call are not interleaved with those
\* of another.
C13_EntriesNotInterleaved ==
    \A h1 \in DOMAIN hs, h2 \in DOMAIN hs :
        (h1 # h2 /\ ChannelEntry(h1) /\ ChannelEntry(h2)) =>
            /\ hs[h1].pc = "done" \/ hs[h2].pc = "done"
            /\ ~\E a \in DOMAIN calls, b \in DOMAIN calls, c \in DOMAIN calls :
                    /\ a < b /\ b < c
                    /\ calls[a].owner = Owner("handler", h1)
                    /\ calls[b].owner = Owner("handler", h2)
                    /\ calls[c].owner = Owner("handler", h1)

\* C14: isAvailable never fails: for every outcome of the probe request
\* (connection error, timeout, a status other than 200, status 200) its
\* promise resolves, to true exactly when the status is 200 and to false
\* otherwise, and it is never rejected.
C14_ProbeNeverFails ==
    \A c \in DOMAIN calls :
        calls[c].op = "isAvailable" =>
            /\ calls[c].outcome # "rejected"
            /\ calls[c].events = << >> => calls[c].outcome = "pending"
            /\ calls[c].events # << >> =>
                  /\ calls[c].outcome = "resolved"
                  /\ calls[c].value = (IF calls[c].events[1] = "end200"
                                       THEN "true" ELSE "false")

\* one probe has met a connection error and one has timed out
C14_Witness ==
    \E c \in DOMAIN calls, d \in DOMAIN calls :
        /\ calls[c].op = "isAvailable" /\ calls[c].events = << "error" >>
        /\ calls[d].op = "isAvailable" /\ calls[d].events = << "timeout" >>
        /\ calls[c].value = "false" /\ calls[d].value = "false"

\* C15: each call of _soapRequest issues exactly one HTTP POST and never
\* sends it again, whatever the outcome; each sendKey, getVolume, setVolume,
\* getMute and setMute call therefore produces exactly one request.
C15_OneRequestPerCall ==
    \A c \in DOMAIN calls : calls[c].op \in SoapOps => calls[c].sent = 1

\* a SOAP call has failed with a connection error and another has timed out
C15_Witness ==
    \E c \in DOMAIN calls, d \in DOMAIN calls :
        /\ calls[c].op \in SoapOps /\ calls[c].error = "connection"
        /\ calls[d].op \in SoapOps /\ calls[d].error = "timeout"
        /\ calls[c].sent = 1 /\ calls[d].sent = 1

\* C16: a SOAP call settles once, with the outcome of the first terminating
\* event: a response with status 200 resolves with the raw body, any other
\* status fails with an HTTP-status error, a connection fault fails with a
\* connection error, and the deadline destroys the request and fails with a
\* timeout error that a later connection error does not replace.
C16_FirstEventDecides ==
    /\ [](\A c \in DOMAIN calls :
             calls[c].op \in SoapOps =>
                 LET r == calls[c]
                 IN  /\ r.events = << >> => r.outcome = "pending"
                     /\ r.events # << >> =>
                           CASE r.events[1] = "end200" ->
                                  r.outcome = "resolved" /\ r.value = r.body
                             [] r.events[1] = "endOther" ->
                                  r.outcome = "rejected" /\ r.error = "httpStatus"
                             [] r.events[1] = "error" ->
                                  r.outcome = "rejected" /\ r.error = "connection"
                             [] r.events[1] = "timeout" ->
                                  /\ r.outcome = "rejected" /\ r.error = "timeout"
                                  /\ r.req = "destroyed")
    /\ [][\A c \in DOMAIN calls :
             calls[c].outcome # "pending" =>
                 /\ calls'[c].outcome = calls[c].outcome
                 /\ calls'[c].value = calls[c].value
                 /\ calls'[c].error = calls[c].error]_vars

\* a call has timed out and the error raised by the abort has followed
C16_Witness ==
    \E c \in DOMAIN calls :
        /\ calls[c].op \in SoapOps
        /\ calls[c].events = << "timeout", "error" >>
        /\ calls[c].nsettle = 2
        /\ calls[c].error = "timeout"

\* C17: when a power-on has been requested and the wake cascade has been run,
\* the adapter afterwards issues the switch-to-tuner key NRC_TV-ONOFF through
\* the client, and not before the cascade has finished.
C17_TunerKeyAfterWake ==
    /\ (wake.pc = "done" /\ wake.status = "success") =>
           \E c \in DOMAIN calls :
               calls[c].owner = Owner("handler", 0) /\ calls[c].arg = "NRC_TV-ONOFF"
    /\ wake.pc \in { "install", "exec" } =>
           ~\E c \in DOMAIN calls : calls[c].owner = Owner("handler", 0)

\* C18: turnOnAppleTv is never called when both the airplay and the companion
\* credential are empty, nor when both identifier and address are empty,
\* whatever the mrp credential is.
C18_WakeOnlyWhenUsable ==
    wake.args # << >> =>
        /\ config.appleTvAirplayCredentials # "" \/ config.appleTvCompanionCredentials # ""
        /\ config.appleTvIdentifier # "" \/ config.appleTvAddress # ""

\* power-on was requested for an identified device that has an mrp
\* credential only, and turnOnAppleTv was not called
C18_Witness ==
    /\ wake.status = "skipped"
    /\ wake.args = << >>
    /\ config.useAppleTv
    /\ config.appleTvIdentifier # ""
    /\ config.appleTvMrpCredentials # ""

\* C19: no command is dropped silently: every write to a command state that
\* is not acknowledged results in the request or wake attempt being issued, or
\* in a warning or error log entry of that invocation; a failing request and
\* a power-on for an enabled but unidentified or unpaired device included.
C19_NoSilentDrop ==
    /\ \A h \in DOMAIN hs :
          ~hs[h].ack =>
              \/ hs[h].ncalls >= 1
              \/ \E level \in { "warn", "error" } : LogEntry(h, level) \in log
    /\ \A h \in DOMAIN hs :
          hs[h].status = "failed" => LogEntry(h, "error") \in log
    /\ wake.pc # "idle" =>
          \/ wake.attempted # << >>
          \/ \E level \in { "warn", "error" } : LogEntry(0, level) \in log

\* C20: a failing polling cycle never stops polling: pollStatus is never
\* rejected, whatever fails inside it, and once a cycle has ended the interval
\* timer is armed and stays armed until onUnload clears it.
C20_PollingNeverStops ==
    /\ [](\A k \in DOMAIN poll.cycles :
             /\ ~poll.cycles[k].rejected
             /\ poll.cycles[k].pc = "done" =>
                   \/ poll.timer = "armed"
                   \/ poll.timer = "cleared" /\ unloaded)
    /\ [][poll.timer = "armed" => (poll'.timer = "armed" \/ (~unloaded /\ unloaded'))]_vars

\* a cycle has failed on a state write or a request, and the timer has
\* started the next cycle
C20_Witness ==
    \E k \in DOMAIN poll.cycles :
        /\ poll.cycles[k].pc = "done"
        /\ poll.cycles[k].caught > 0
        /\ k + 1 \in DOMAIN poll.cycles
        /\ poll.cycles[k + 1].origin = "timer"
        /\ poll.timer = "armed"

\* C21: every external call is under a deadline for as long as it is
\* outstanding: every live pairing subprocess, one that awaits its PIN between
\* pairStart and pairFinish included, has an armed timer of pairStart or
\* pairFinish that will end it, and every pending HTTP request still has its
\* socket timeout ahead of it.
C21_EveryCallUnderDeadline ==
    /\ \A p \in Procs :
          Live(p) =>
              \/ start[p].timer = "armed"
              \/ \E f \in Fins : fin[f].proc = p /\ fin[f].timer = "armed"
    /\ \A c \in DOMAIN calls :
          calls[c].outcome = "pending" => calls[c].events = << >>

\* C22: when the control binary is not found or cannot be spawned,
\* provisioning is attempted exactly once for the operation: the installer
\* runs at most once, the operation goes on when the binary is found
\* afterwards, and otherwise it fails without a second install attempt and
\* without running any control command.
C22_ProvisionedOnce ==
    /\ scan.installs <= 1
    /\ scan.pc = "install" => (scan.installs = 1 /\ scan.execs = 0)
    /\ scan.error \in { "install", "notFound" } => (scan.installs = 1 /\ scan.execs = 0)
    /\ scan.error = "spawnFailure" => scan.installs = 1

\* C27: for every scanned device block, discovery selects the MAC-form
\* identifier (six groups of two hex digits separated by colons) if one is
\* listed, otherwise the first listed identifier, otherwise the MAC: field; a
\* block listing AA:BB:CC:DD:EE:FF and XYZ123 yields AA:BB:CC:DD:EE:FF.
C27_IdentifierPolicy ==
    LET ListedIdentifier(l) ==
            CASE l \in { " - AA:BB:CC:DD:EE:FF", "Identifier: AA:BB:CC:DD:EE:FF" } ->
                   "AA:BB:CC:DD:EE:FF"
              [] l \in { " - XYZ123", "Identifier: XYZ123" } -> "XYZ123"
              [] OTHER -> NULL
        IsMacForm(id) == id = "AA:BB:CC:DD:EE:FF"
        MacFormIn(l) == IF IsMacForm(ListedIdentifier(l)) THEN ListedIdentifier(l) ELSE NULL
        MacFieldIn(l) == IF l = "MAC: AA:BB:CC:DD:EE:FF" THEN "AA:BB:CC:DD:EE:FF" ELSE NULL
        FirstOf(In(_), block) ==
            LET at == { i \in 1..Len(block) : In(block[i]) # NULL }
            IN  IF at = {} THEN NULL
                ELSE In(block[CHOOSE i \in at : \A j \in at : i <= j])
        PolicyIdentifier(block) ==
            IF FirstOf(MacFormIn, block) # NULL THEN FirstOf(MacFormIn, block)
            ELSE IF FirstOf(ListedIdentifier, block) # NULL
            THEN FirstOf(ListedIdentifier, block)
            ELSE FirstOf(MacFieldIn, block)
        blocks == SplitBlocks(scan.stdout, << >>)
    IN  scan.status = "ok" =>
            \A i \in 1..Len(blocks) :
                (FirstOf(NameIn, blocks[i]) # NULL /\ PolicyIdentifier(blocks[i]) # NULL)
                   => \E d \in 1..Len(scan.devices) :
                         /\ scan.devices[d].name = FirstOf(NameIn, blocks[i])
                         /\ scan.devices[d].identifier = PolicyIdentifier(blocks[i])

\* C23: for every volume input v, setVolume(v) sends a DesiredVolume equal to
\* clamp(round(v), 0, 100): the value on the wire is a whole number in
\* 0..100, nearest to v when v is within that range; inputs below 0 send 0
\* and inputs above 100 send 100.
C23_VolumeClamped ==
    \A c \in DOMAIN calls :
        calls[c].op = "setVolume" =>
            \E i \in 0..100 :
                /\ calls[c].arg = ToString(i)
                /\ calls[c].input < 0 => i = 0
                /\ calls[c].input > 1000 => i = 100
                /\ (calls[c].input >= 0 /\ calls[c].input <= 1000) =>
                       (10 * i - calls[c].input <= 5 /\ calls[c].input - 10 * i <= 5)

\* setVolume(150) has sent 100 and setVolume(2.5) has sent 3
C23_Witness ==
    \E c \in DOMAIN calls, d \in DOMAIN calls :
        /\ calls[c].op = "setVolume" /\ calls[c].input = 1500 /\ calls[c].arg = "100"
        /\ calls[d].op = "setVolume" /\ calls[d].input = 25 /\ calls[d].arg = "3"

\* C24: key normalisation in sendKey is canonical and idempotent: for every
\* bare key name K, sendKey(K) and sendKey('NRC_' + K + '-ONOFF') put the
\* identical key-event token on the wire, a key that already has the vendor
\* prefix is sent unchanged, and sending a token that was sent sends it again.
C24_KeyNormalised ==
    LET prefix == << "N", "R", "C", "_" >>
        suffix == << "-", "O", "N", "O", "F", "F" >>
        Prefixed(key) == /\ Len(Chars(key)) >= 4
                         /\ \A i \in 1..4 : Chars(key)[i] = prefix[i]
        SendKeys == { c \in DOMAIN calls : calls[c].op = "sendKey" }
    IN  \A c \in SendKeys :
            /\ Prefixed(calls[c].input) => calls[c].arg = calls[c].input
            /\ \A d \in SendKeys :
                  /\ ( /\ ~Prefixed(calls[c].input)
                       /\ Chars(calls[d].input) = prefix \o Chars(calls[c].input) \o suffix )
                        => calls[d].arg = calls[c].arg
                  /\ calls[d].input = calls[c].arg => calls[d].arg = calls[c].arg

\* sendKey('VOLUP') and sendKey('NRC_VOLUP-ONOFF') have both sent
\* NRC_VOLUP-ONOFF
C24_Witness ==
    \E c \in DOMAIN calls, d \in DOMAIN calls :
        /\ calls[c].op = "sendKey" /\ calls[c].input = "VOLUP"
        /\ calls[d].op = "sendKey" /\ calls[d].input = "NRC_VOLUP-ONOFF"
        /\ calls[c].arg = "NRC_VOLUP-ONOFF"
        /\ calls[d].arg = "NRC_VOLUP-ONOFF"

\* C25: getVolume and getMute return none, not an error, when the value tag
\* is absent from a 200 response: the request resolves, and the polling cycle
\* that made it goes on without writing the volume or mute state and without
\* a failure caught.
C25_AbsentTagIsUnknown ==
    [][ \A c \in DOMAIN calls :
          ( /\ calls[c].owner.kind = "poll"
            /\ calls[c].op \in { "getVolume", "getMute" }
            /\ calls[c].outcome = "pending"
            /\ calls'[c].events = << "end200" >>
            /\ calls'[c].body = "<Fault/>" )
             => LET k == calls[c].owner.id
                IN  /\ calls'[c].outcome = "resolved"
                    /\ poll'.cycles[k].caught = poll.cycles[k].caught
                    /\ ~poll'.cycles[k].rejected
                    /\ poll'.cycles[k].pc \notin { "volume", "mute" }
                    /\ poll'.cycles[k].pc =
                          (IF calls[c].op = "getVolume" THEN "getMute" ELSE "done") ]_vars

\* a cycle has ended after both responses came without their tag
C25_Witness ==
    \E k \in DOMAIN poll.cycles :
        /\ poll.cycles[k].pc = "done"
        /\ poll.cycles[k].caught = 0
        /\ \E c \in DOMAIN calls, d \in DOMAIN calls :
              /\ calls[c].owner = Owner("poll", k) /\ calls[c].op = "getVolume"
              /\ calls[c].events = << "end200" >> /\ calls[c].body = "<Fault/>"
              /\ calls[d].owner = Owner("poll", k) /\ calls[d].op = "getMute"
              /\ calls[d].events = << "end200" >> /\ calls[d].body = "<Fault/>"

\* C26: credential extraction is two-stage in a fixed order: the value of the
\* first labelled 'credentials:' line if the output has one, wherever it
\* stands; else the last long hex-colon line; else none.  Stated for the exit
\* of a pairing subprocess whose pairStart call is still open.
C26_TwoStageExtraction ==
    [][ (proc[1].st = "running" /\ proc'[1].st = "exited" /\ ~start[1].resolved)
          => LET output == proc[1].out
                 labelled == { i \in 1..Len(output) : LabelledValue(output[i]) # NULL }
                 hex == { i \in 1..Len(output) : IsLongHexToken(output[i]) }
                 first == CHOOSE i \in labelled : \A j \in labelled : i <= j
                 last == CHOOSE i \in hex : \A j \in hex : j <= i
             IN  IF labelled # {}
                 THEN /\ start'[1].result = "paired"
                      /\ start'[1].cred = Token(LabelledValue(output[first]))
                 ELSE IF hex # {}
                 THEN /\ start'[1].result = "paired"
                      /\ start'[1].cred = Token(output[last])
                 ELSE /\ start'[1].result = "exitFailed"
                      /\ start'[1].cred = NoCred ]_vars

\* a hex-colon token stood before two labelled lines, and the first labelled
\* value came out
C26_Witness ==
    /\ proc[1].st = "exited"
    /\ proc[1].out = << "AA:BB:CC:DD:EE:FF:00:11", "Credentials: cafe02",
                        "Credentials: deadbeef01" >>
    /\ start[1].result = "paired"
    /\ start[1].cred = Token("cafe02")

\* C28: a submitPin handler that completes clears only the session it was
\* started for: when startPairing has replaced the session while pairFinish
\* was pending, the completion of the old submitPin does not empty
\* this._pairProcess while the new session's subprocess is alive.
C28_ClearsOwnSessionOnly ==
    [][ \A f \in Fins :
          ( /\ FinSettledNow(f)
            /\ pairProcess # 0
            /\ pairProcess # fin[f].proc
            /\ proc[fin[f].proc].cancelled      \* killed by the startPairing that replaced it
            /\ proc'[pairProcess].st = "running" )
             => pairProcess' = pairProcess ]_vars

\* C29: after onUnload has run the adapter publishes no further state: no
\* pollStatus call that was in flight goes on to a setStateAsync of
\* info.connection, power, volume or mute, and no state-change handler goes
\* on to its acknowledgement.
C29_NothingPublishedAfterUnload ==
    [][ unloaded =>
          /\ \A k \in DOMAIN poll.cycles :
                poll'.cycles[k].pc \in { "conn", "power", "volume", "mute" }
                   => poll'.cycles[k].pc = poll.cycles[k].pc
          /\ \A h \in DOMAIN hs :
                hs'[h].pc = "ack" => hs[h].pc = "ack" ]_vars

\* C30: after a write to the volume state has been handled successfully, the
\* acknowledged volume equals the DesiredVolume that was sent to the
\* television, also for written values outside 0..100, and the state is
\* acknowledged only after the setVolume request succeeded.
C30_AckedVolumeIsSent ==
    \A h \in DOMAIN hs :
        (hs[h].channel # "remote" /\ hs[h].stateName = "volume" /\ hs[h].acked # "")
           => \E c \in DOMAIN calls :
                 /\ calls[c].owner = Owner("handler", h)
                 /\ calls[c].op = "setVolume"
                 /\ calls[c].outcome = "resolved"
                 /\ calls[c].arg = hs[h].acked

\* C31: a state change that is acknowledged (ack = true) or empty causes no
\* command: the invocation of onStateChange returns at once, issues no HTTP
\* request, starts no wake, logs nothing and writes no state, then and ever
\* after.
C31_AckedChangeDoesNothing ==
    [][ /\ Len(hs') = Len(hs) + 1 =>
             LET h == hs'[Len(hs')]
             IN  (h.ack \/ h.val = NoState)
                    => /\ calls' = calls
                       /\ wake' = wake
                       /\ log' = log
                       /\ h.pc = "done" /\ h.ncalls = 0 /\ h.acked = ""
        /\ \A h \in DOMAIN hs :
              (hs[h].ack \/ hs[h].val = NoState)
                 => /\ hs'[h] = hs[h]
                    /\ \A c \in DOMAIN calls' : calls'[c].owner # Owner("handler", h) ]_vars

\* power = true has come back acknowledged, the volume state has been
\* deleted, and neither a wake nor a request has been started
C31_Witness ==
    /\ Len(hs) = 2
    /\ \E h \in DOMAIN hs :
          hs[h].ack /\ hs[h].stateName = "power" /\ hs[h].val = "true"
    /\ \E h \in DOMAIN hs :
          hs[h].val = NoState /\ hs[h].stateName = "volume" /\ ~hs[h].ack
    /\ wake.pc = "idle"
    /\ Len(calls) = 1

\* C32: pairStart and pairFinish each settle at most once among their
\* competing events: resolve/reject is called once at most, the first outcome
\* stays whatever comes later, and once pairStart has resolved with
\* awaitingPin its 30 s timer is disarmed for good, so it never fires on the
\* subprocess handed to the caller.
C32_SettleAtMostOnce ==
    /\ [](/\ \A s \in Procs : /\ start[s].nsettle <= 1
                              /\ start[s].result = "awaitingPin"
                                    => start[s].timer = "cleared"
          /\ \A f \in Fins : fin[f].nsettle <= 1)
    /\ [][ /\ \A s \in Procs :
                 start[s].result # "none"
                    => /\ start'[s].result = start[s].result
                       /\ start'[s].cred = start[s].cred
                       /\ start'[s].nsettle = start[s].nsettle
           /\ \A f \in Fins :
                 fin[f].result # "none"
                    => /\ fin'[f].result = fin[f].result
                       /\ fin'[f].cred = fin[f].cred
                       /\ fin'[f].nsettle = fin[f].nsettle ]_vars

\* a session was prompted for its PIN, its pairFinish timed out, and the
\* subprocess exited after that: each call has settled once
C32_Witness ==
    \E f \in Fins :
        /\ fin[f].result = "timeout" /\ fin[f].nsettle = 1
        /\ fin[f].proc # 0
        /\ proc[fin[f].proc].st = "exited"
        /\ start[fin[f].proc].result = "awaitingPin"
        /\ start[fin[f].proc].nsettle = 1
        /\ start[fin[f].proc].timer = "cleared"

\* C33: under fairness of timers and of process/network events every call of
\* a core operation eventually settles: the HTTP operations and isAvailable,
\* sendChannelNumber, turnOnAppleTv, scanAppleTvs, pairStart and pairFinish,
\* also pairFinish called on a subprocess that had exited on its own.
C33_EveryCallSettles ==
    /\ \A c \in CallIds :
          (c \in DOMAIN calls /\ calls[c].outcome = "pending")
             ~> (c \in DOMAIN calls /\ calls[c].outcome # "pending")
    /\ \A h \in 1..MaxWrites :
          (h \in DOMAIN hs /\ hs[h].pc # "done")
             ~> (h \in DOMAIN hs /\ hs[h].pc = "done")
    /\ (wake.pc \in { "install", "exec" }) ~> (wake.pc = "done")
    /\ (scan.pc \in { "install", "exec" }) ~> (scan.pc = "done")
    /\ \A s \in Procs :
          (start[s].pc \in { "install", "waiting" }) ~> (start[s].result # "none")
    /\ \A f \in Fins :
          (fin[f].pc = "waiting") ~> (fin[f].result # "none")

\* pairFinish was called on a subprocess that had exited on its own, and has
\* settled by its timer
C33_Witness ==
    \E f \in Fins :
        /\ fin[f].result = "timeout"
        /\ fin[f].proc # 0
        /\ proc[fin[f].proc].st = "exited"
        /\ ~proc[fin[f].proc].killed
        /\ fin[f].from = Len(proc[fin[f].proc].out)

====
